---------------------------- MODULE Spec2Model ----------------------------
(***************************************************************************)
(* A model of src/handler.js: the Lambda handler `daily` of the bin-day    *)
(* notifier.  One invocation of `daily` is a run; a run walks the          *)
(* configured addresses, scrapes the schedule of each, decides whether a   *)
(* notification is due, sends it to every valid recipient and records the  *)
(* date in the state table (DynamoDB).                                     *)
(*                                                                         *)
(* Calendar dates are day numbers (ISO dates compare like them).  The      *)
(* value 0 in the state table stands for "no item / no attribute".         *)
(* A step of a run is the code between two awaits on an external service.  *)
(*                                                                         *)
(* extractCollections, parseDateToLocal and formatUKDate are operators on  *)
(* texts.  A text is a sequence of pieces: single characters, or a whole   *)
(* bin name, month name or suffix as one piece.  There a calendar date is  *)
(* a record of year, month and day and its ISO text.  ExtractSpec and      *)
(* FormatSpec apply these functions to every input of a bounded set.       *)
(***************************************************************************)
EXTENDS Integers, Sequences, FiniteSets, TLC

\* ------------------------------------------------------------- bounds
\* Invocations of daily the model follows.
MaxRuns == 2
\* Last day the clock reaches (the first day is 1).
MaxDay == 2
\* Rows of a results table given to extractCollections.
MaxRows == 2
\* Lines of a page without a results table.
MaxLines == 2
\* Years of the dates given to formatUKDate.
MaxYears == 1

Runs == 1..MaxRuns

\* ------------------------------------------------- configuration data
\* Recipients are strings, kept as sequences of characters so that the
\* emailLike test reads them.
RcptAnn == <<"a", "@", "x", ".", "y">>
RcptBob == <<"b", "@", "x", ".", "y">>
RcptPhone == <<"+", "4", "4", "7">>
RcptNoDot == <<"c", "@", "x">>

LabelOne == "10 Example Road"
LabelTwo == "12 Example Road"
Labels == {LabelOne, LabelTwo}

\* config/recipients.json: the address lists the runs are checked with.
\* The last one has an entry without a recipients array.
Configs ==
  { << [label |-> LabelOne, recipients |-> <<RcptAnn, RcptPhone, RcptBob>>] >>,
    << [label |-> LabelOne, recipients |-> <<RcptAnn>>],
       [label |-> LabelTwo, recipients |-> <<RcptNoDot, RcptBob>>] >>,
    << [label |-> LabelOne, recipients |-> <<RcptPhone>>],
       [label |-> LabelOne, recipients |-> <<RcptBob>>] >>,
    << [label |-> LabelOne, recipients |-> <<RcptBob>>],
       [label |-> LabelTwo] >> }

\* ----------------------------------------------------- pure functions
\* /.+@.+\..+/.test(v): an "@" with a character before it, later a "."
\* with a character between the two, and a character after the ".".
EmailLike(v) ==
  \E p \in 1..Len(v) : \E q \in 1..Len(v) :
    /\ v[p] = "@"
    /\ v[q] = "."
    /\ p >= 2
    /\ q >= p + 2
    /\ q < Len(v)

\* recipients.filter(emailLike)
ToList(recipients) == SelectSeq(recipients, EmailLike)

\* sha256(label): a digest, one per label.
sha256(s) == <<"sha256", s>>

Keys == {sha256(l) : l \in Labels}

\* now.plus({ days: 1 }).toISODate()
Tomorrow(nowDay) == nowDay + 1

\* One entry of result.collections.
Entry(d, b) == [localDate |-> d, bins |-> b]

\* Bin texts: a text is a sequence of pieces, a bin name is one piece.
GeneralWaste == <<"General Waste">>
RecyclingBin == <<"Recycling">>
FoodWaste == <<"Food Waste">>

Refuse == <<GeneralWaste>>
Recycling == <<RecyclingBin, FoodWaste>>

\* What a scrape may return on day t: nothing, tomorrow only, today and
\* tomorrow, two later days out of order, a day already past.
Schedules(t) ==
  { <<>>,
    << Entry(t + 1, Refuse) >>,
    << Entry(t, Recycling), Entry(t + 1, Refuse) >>,
    << Entry(t + 3, Refuse), Entry(t + 2, Recycling) >>,
    << Entry(t - 1, Refuse) >> }

\* result.collections.some(c => c.localDate === tomorrow)
HasTomorrow(collections, tmrw) ==
  \E k \in 1..Len(collections) : collections[k].localDate = tmrw

\* .filter(c => c.dt.isValid && c.dt >= now.startOf('day'))
FromToday(collections, nowDay) ==
  SelectSeq(collections, LAMBDA c : c.localDate >= nowDay)

\* Insert entry c into a sequence sorted by date, after the entries that
\* do not come later (Array.prototype.sort is stable).
RECURSIVE InsertByDate(_, _)
InsertByDate(sorted, c) ==
  IF sorted = <<>> THEN <<c>>
  ELSE IF Head(sorted).localDate <= c.localDate
       THEN <<Head(sorted)>> \o InsertByDate(Tail(sorted), c)
       ELSE <<c>> \o sorted

\* .sort((a, b) => a.dt - b.dt)
RECURSIVE SortByDate(_)
SortByDate(collections) ==
  IF collections = <<>> THEN <<>>
  ELSE InsertByDate(SortByDate(SubSeq(collections, 1, Len(collections) - 1)),
                    collections[Len(collections)])

\* The upcoming entries of a forced run with no collection tomorrow.
Upcoming(collections, nowDay) == SortByDate(FromToday(collections, nowDay))

\* let announceDate = tomorrow; if (forceNotify && !hasTomorrow) { ... }
AnnounceDate(collections, tmrw, nowDay, force) ==
  IF force /\ ~HasTomorrow(collections, tmrw)
  THEN IF Len(Upcoming(collections, nowDay)) > 0
       THEN Upcoming(collections, nowDay)[1].localDate
       ELSE tmrw
  ELSE tmrw

\* parts.join(sep) for a sequence of texts; a separator is one piece, the
\* empty string is the empty sequence.
RECURSIVE Join(_, _)
Join(parts, sep) ==
  IF parts = <<>> THEN <<>>
  ELSE IF Len(parts) = 1 THEN parts[1]
  ELSE parts[1] \o <<sep>> \o Join(Tail(parts), sep)

\* The entries of the schedule dated d, in schedule order.
EntriesOn(collections, d) == SelectSeq(collections, LAMBDA c : c.localDate = d)

\* .flatMap(c => c.bins)
RECURSIVE FlatBins(_)
FlatBins(entries) ==
  IF entries = <<>> THEN <<>> ELSE Head(entries).bins \o FlatBins(Tail(entries))

\* Array.from(new Set(list)): the first occurrence of each element is kept.
RECURSIVE Unique(_)
Unique(list) ==
  IF list = <<>> THEN <<>>
  ELSE LET front == Unique(SubSeq(list, 1, Len(list) - 1))
           last == list[Len(list)]
       IN IF \E k \in 1..Len(front) : front[k] = last
          THEN front ELSE Append(front, last)

\* uniqueBins = Array.from(new Set(binsForAnnounce))
UniqueBins(collections, announceDate) ==
  Unique(FlatBins(EntriesOn(collections, announceDate)))

\* announceDetails: c.bins.join(', ') of each entry dated announceDate,
\* joined with ' | '.
AnnounceDetails(collections, announceDate) ==
  LET entries == EntriesOn(collections, announceDate) IN
    Join([k \in 1..Len(entries) |-> Join(entries[k].bins, ", ")], " | ")

\* binsText = announceDetails || uniqueBins.join(' + ')
BinsText(collections, announceDate) ==
  LET uniqueBins == UniqueBins(collections, announceDate) IN
    IF AnnounceDetails(collections, announceDate) # <<>>
    THEN AnnounceDetails(collections, announceDate)
    ELSE Join(uniqueBins, " + ")

\* A faulty wasNotifiedForDate: the stored date compared with ">" instead
\* of "===".
WasNotifiedLater(last, localDate) == last > localDate

\* A faulty wasNotifiedForDate: a stored date after the target date counts
\* as notified too.
WasNotifiedOnOrAfter(last, localDate) == last >= localDate

\* wasNotifiedForDate: last === localDate
WasNotified(last, localDate) == last = localDate

\* A faulty condition: the state is written in a forced run too.
ShouldMarkWhenForced(force, announceDate, tmrw) == announceDate = tmrw

\* if (!forceNotify && isTomorrow): whether markNotified is called.
ShouldMark(force, announceDate, tmrw) == ~force /\ announceDate = tmrw

\* ------------------------------------------------- dates and their texts
\* A text is a sequence of pieces: one piece per character, except that a
\* bin name, a month name and an ordinal suffix are one piece each.
Digits == {"0", "1", "2", "3", "4", "5", "6", "7", "8", "9"}
DigitChars == <<"0", "1", "2", "3", "4", "5", "6", "7", "8", "9">>
Letters ==
  {"a", "b", "c", "d", "e", "f", "g", "h", "i", "j", "k", "l", "m", "n", "o",
   "p", "q", "r", "s", "t", "u", "v", "w", "x", "y", "z",
   "A", "B", "C", "D", "E", "F", "G", "H", "I", "J", "K", "L", "M", "N", "O",
   "P", "Q", "R", "S", "T", "U", "V", "W", "X", "Y", "Z"}
\* \w and \s of the regular expressions.
WordChars == Digits \cup Letters \cup {"_"}
Spaces == {" ", "\t"}

DigitVal(c) == (CHOOSE k \in 1..10 : DigitChars[k] = c) - 1

\* /^\d+$/
IsDigits(s) == Len(s) >= 1 /\ \A k \in 1..Len(s) : s[k] \in Digits

\* parseInt of a text of digits.
RECURSIVE ToInt(_)
ToInt(s) ==
  IF s = <<>> THEN 0
  ELSE 10 * ToInt(SubSeq(s, 1, Len(s) - 1)) + DigitVal(s[Len(s)])

\* The decimal digits of n, padded with zeros to the width.
RECURSIVE Pad(_, _)
Pad(n, width) ==
  IF width = 0 THEN <<>>
  ELSE Append(Pad(n \div 10, width - 1), DigitChars[(n % 10) + 1])

\* String(n) for a number of the calendar.
IntText(n) ==
  IF n < 10 THEN Pad(n, 1) ELSE IF n < 100 THEN Pad(n, 2)
  ELSE IF n < 1000 THEN Pad(n, 3) ELSE Pad(n, 4)

\* s.split(c)
RECURSIVE Split(_, _)
Split(s, c) ==
  IF \E k \in 1..Len(s) : s[k] = c
  THEN LET k == CHOOSE k \in 1..Len(s) :
                  s[k] = c /\ \A h \in 1..(k - 1) : s[h] # c
       IN <<SubSeq(s, 1, k - 1)>> \o Split(SubSeq(s, k + 1, Len(s)), c)
  ELSE <<s>>

\* s.trim()
RECURSIVE Trim(_)
Trim(s) ==
  IF s # <<>> /\ s[1] \in Spaces THEN Trim(Tail(s))
  ELSE IF s # <<>> /\ s[Len(s)] \in Spaces THEN Trim(SubSeq(s, 1, Len(s) - 1))
  ELSE s

\* A luxon DateTime of a calendar date; Invalid is the DateTime whose
\* isValid is false.
Date(y, m, d) == [year |-> y, month |-> m, day |-> d]
Invalid == Date(0, 0, 0)

IsLeap(y) == (y % 4 = 0 /\ y % 100 # 0) \/ y % 400 = 0

DaysInMonth(y, m) ==
  IF m = 2 THEN (IF IsLeap(y) THEN 29 ELSE 28)
  ELSE IF m \in {4, 6, 9, 11} THEN 30 ELSE 31

\* luxon validates the units it has parsed.
Checked(y, m, d) ==
  IF m \in 1..12 /\ d >= 1 /\ d <= DaysInMonth(y, m) THEN Date(y, m, d)
  ELSE Invalid

\* luxon untruncateYear with the cut-off year 60.
UntruncateYear(y) ==
  IF y > 99 THEN y ELSE IF y > 60 THEN 1900 + y ELSE 2000 + y

\* DateTime.fromFormat(s, 'd/M/yyyy')
FromFormatDMYYYY(s) ==
  LET f == Split(s, "/") IN
    IF /\ Len(f) = 3
       /\ IsDigits(f[1]) /\ Len(f[1]) <= 2
       /\ IsDigits(f[2]) /\ Len(f[2]) <= 2
       /\ IsDigits(f[3]) /\ Len(f[3]) = 4
    THEN Checked(ToInt(f[3]), ToInt(f[2]), ToInt(f[1]))
    ELSE Invalid

\* DateTime.fromFormat(s, 'd/M/yy'): yy takes two to four digits.
FromFormatDMYY(s) ==
  LET f == Split(s, "/") IN
    IF /\ Len(f) = 3
       /\ IsDigits(f[1]) /\ Len(f[1]) <= 2
       /\ IsDigits(f[2]) /\ Len(f[2]) <= 2
       /\ IsDigits(f[3]) /\ Len(f[3]) \in 2..4
    THEN Checked(UntruncateYear(ToInt(f[3])), ToInt(f[2]), ToInt(f[1]))
    ELSE Invalid

\* The short month names of the en locale (LLL); the match ignores case,
\* the texts checked write them as here.
ShortMonths ==
  << <<"J", "a", "n">>, <<"F", "e", "b">>, <<"M", "a", "r">>, <<"A", "p", "r">>,
     <<"M", "a", "y">>, <<"J", "u", "n">>, <<"J", "u", "l">>, <<"A", "u", "g">>,
     <<"S", "e", "p">>, <<"O", "c", "t">>, <<"N", "o", "v">>, <<"D", "e", "c">> >>

\* DateTime.fromFormat(s, 'd LLL yyyy')
FromFormatDLLLYYYY(s) ==
  LET f == Split(s, " ") IN
    IF /\ Len(f) = 3
       /\ IsDigits(f[1]) /\ Len(f[1]) <= 2
       /\ \E m \in 1..12 : ShortMonths[m] = f[2]
       /\ IsDigits(f[3]) /\ Len(f[3]) = 4
    THEN Checked(ToInt(f[3]),
                 CHOOSE m \in 1..12 : ShortMonths[m] = f[2],
                 ToInt(f[1]))
    ELSE Invalid

\* DateTime.now() in the zone: the calendar date a text that has only a
\* time of day is read against.
Today == Date(2025, 9, 11)

\* The calendar date after dt.
NextDay(dt) ==
  IF dt.day < DaysInMonth(dt.year, dt.month) THEN Date(dt.year, dt.month, dt.day + 1)
  ELSE IF dt.month < 12 THEN Date(dt.year, dt.month + 1, 1)
  ELSE Date(dt.year + 1, 1, 1)

\* DateTime.fromISO(s) of a calendar date, yyyy, yyyy-MM or yyyy-MM-dd
\* with the hyphens optional, or of a time of day, HH, HH:mm or HH:mm:ss
\* with a colon optional where the digits are not a calendar date; a time
\* of day is a time of today, and 24:00 is the start of the next day.
\* Week dates, ordinal dates, fractions of a second and offsets are not
\* among the texts modelled.
FromISO(s) ==
  LET bare == SelectSeq(s, LAMBDA c : c # "-")
      hyphens == {k \in 1..Len(s) : s[k] = "-"}
      clock == SelectSeq(s, LAMBDA c : c # ":")
      colons == {k \in 1..Len(s) : s[k] = ":"}
      unit(k) == IF Len(clock) >= 2 * k
                 THEN ToInt(SubSeq(clock, 2 * k - 1, 2 * k)) ELSE 0
  IN
    IF /\ IsDigits(bare)
       /\ \/ Len(bare) = 4 /\ hyphens = {}
          \/ Len(bare) = 6 /\ hyphens \in {{}, {5}}
          \/ Len(bare) = 8 /\ hyphens \in {{}, {5}, {7}, {5, 8}}
    THEN Checked(ToInt(SubSeq(bare, 1, 4)),
                 IF Len(bare) >= 6 THEN ToInt(SubSeq(bare, 5, 6)) ELSE 1,
                 IF Len(bare) = 8 THEN ToInt(SubSeq(bare, 7, 8)) ELSE 1)
    ELSE IF /\ IsDigits(clock)
            /\ \/ Len(clock) = 2 /\ colons = {}
               \/ Len(clock) = 4 /\ colons = {3}
               \/ Len(clock) = 6 /\ colons \in {{3}, {5}, {3, 6}}
    THEN IF unit(1) <= 23 /\ unit(2) <= 59 /\ unit(3) <= 59 THEN Today
         ELSE IF unit(1) = 24 /\ unit(2) = 0 /\ unit(3) = 0 THEN NextDay(Today)
         ELSE Invalid
    ELSE Invalid

\* dt.toISODate()
ToISODate(dt) ==
  Pad(dt.year, 4) \o <<"-">> \o Pad(dt.month, 2) \o <<"-">> \o Pad(dt.day, 2)

\* The class of a piece for the regular expressions: digit, letter, white
\* space, or the piece itself.
Class(c) ==
  IF c \in Digits THEN "d" ELSE IF c \in Letters THEN "l"
  ELSE IF c \in Spaces THEN "s" ELSE c

\* The maximal runs of pieces of one class, in order.
RECURSIVE ClassRuns(_)
ClassRuns(s) ==
  IF s = <<>> THEN <<>>
  ELSE LET front == ClassRuns(SubSeq(s, 1, Len(s) - 1))
           cls == Class(s[Len(s)])
       IN IF front # <<>> /\ front[Len(front)].class = cls
          THEN [front EXCEPT ![Len(front)].to = Len(s)]
          ELSE Append(front, [class |-> cls, from |-> Len(s), to |-> Len(s)])

\* One element of a pattern: lo to hi pieces of a class.
Of(cls, lo, hi) == [class |-> cls, lo |-> lo, hi |-> hi]

\* The matches <<p, q>> in s of \b pattern \b, for a pattern that begins and
\* ends with digits and in which neighbours differ in class: each element
\* takes a whole run, and no letter, digit or "_" touches the match.
Matches(s, pattern) ==
  LET runs == ClassRuns(s)
      n == Len(pattern)
      fits(k) ==
        /\ k + n - 1 <= Len(runs)
        /\ \A j \in 1..n :
             /\ runs[k + j - 1].class = pattern[j].class
             /\ runs[k + j - 1].to - runs[k + j - 1].from + 1 >= pattern[j].lo
             /\ runs[k + j - 1].to - runs[k + j - 1].from + 1 <= pattern[j].hi
        /\ k > 1 => runs[k - 1].class \notin {"l", "_"}
        /\ k + n - 1 < Len(runs) => runs[k + n].class \notin {"l", "_"}
  IN { <<runs[k].from, runs[k + n - 1].to>> : k \in {h \in 1..Len(runs) : fits(h)} }

\* \d{1,2}\/\d{1,2}\/\d{lo,hi}
SlashDate(lo, hi) ==
  <<Of("d", 1, 2), Of("/", 1, 1), Of("d", 1, 2), Of("/", 1, 1), Of("d", lo, hi)>>

\* \d{1,2}\s+[A-Za-z]{3,9}\s+\d{4}
WordDate(s) ==
  <<Of("d", 1, 2), Of("s", 1, Len(s)), Of("l", 3, 9), Of("s", 1, Len(s)),
    Of("d", 4, 4)>>

\* \d{4}-\d{2}-\d{2}
IsoDate ==
  <<Of("d", 4, 4), Of("-", 1, 1), Of("d", 2, 2), Of("-", 1, 1), Of("d", 2, 2)>>

\* The leftmost of a set of matches (at one place there is at most one).
Leftmost(matches) ==
  CHOOSE m \in matches : \A n \in matches : m[1] <= n[1]

\* The matches of dateRegex in a line.
DateRegexMatches(s) ==
  Matches(s, SlashDate(2, 4)) \cup Matches(s, WordDate(s)) \cup Matches(s, IsoDate)

\* parseDateToLocal(str): the formats in turn, then a d/M/yyyy date inside
\* the text; Invalid stands for its null.
ParseDateToLocal(str) ==
  LET s == Trim(str) IN
    IF FromFormatDMYYYY(s) # Invalid THEN FromFormatDMYYYY(s)
    ELSE IF FromFormatDMYY(s) # Invalid THEN FromFormatDMYY(s)
    ELSE IF FromFormatDLLLYYYY(s) # Invalid THEN FromFormatDLLLYYYY(s)
    ELSE IF FromISO(s) # Invalid THEN FromISO(s)
    ELSE IF Matches(s, SlashDate(4, 4)) # {}
         THEN LET m == Leftmost(Matches(s, SlashDate(4, 4)))
              IN FromFormatDMYYYY(SubSeq(s, m[1], m[2]))
         ELSE Invalid

\* One row of tableData.rows.
Row(dateText, binsText) == [dateText |-> dateText, binsText |-> binsText]

\* A faulty merge loop: the bin text of a row is added to its date even
\* when the date has it already.
RECURSIVE MergeRowsKeepingDuplicates(_)
MergeRowsKeepingDuplicates(rows) ==
  IF rows = <<>> THEN <<>>
  ELSE LET map == MergeRowsKeepingDuplicates(SubSeq(rows, 1, Len(rows) - 1))
           row == rows[Len(rows)]
           dt == ParseDateToLocal(row.dateText)
       IN IF dt = Invalid \/ row.binsText = <<>> THEN map
          ELSE LET localDate == ToISODate(dt) IN
                 IF \E k \in 1..Len(map) : map[k].localDate = localDate
                 THEN LET k == CHOOSE k \in 1..Len(map) : map[k].localDate = localDate
                      IN [map EXCEPT ![k].bins = Append(@, row.binsText)]
                 ELSE Append(map, Entry(localDate, <<row.binsText>>))

\* The loop over tableData.rows: byDateFromTables as the sequence of its
\* entries in insertion order (a Map keeps the place of a key that is set
\* again).
RECURSIVE MergeRows(_)
MergeRows(rows) ==
  IF rows = <<>> THEN <<>>
  ELSE LET map == MergeRows(SubSeq(rows, 1, Len(rows) - 1))
           row == rows[Len(rows)]
           dt == ParseDateToLocal(row.dateText)
       IN IF dt = Invalid \/ row.binsText = <<>> THEN map
          ELSE LET localDate == ToISODate(dt) IN
                 IF \E k \in 1..Len(map) : map[k].localDate = localDate
                 THEN LET k == CHOOSE k \in 1..Len(map) : map[k].localDate = localDate
                      IN IF \E b \in 1..Len(map[k].bins) : map[k].bins[b] = row.binsText
                         THEN map
                         ELSE [map EXCEPT ![k].bins = Append(@, row.binsText)]
                 ELSE Append(map, Entry(localDate, <<row.binsText>>))

\* One match of the text fallback: the date of line k and the line with
\* its neighbours, [lines[i - 1], lines[i], lines[i + 1]].filter(Boolean)
\* .join(' ').
Context(lines, k) ==
  Join(SubSeq(lines, IF k > 1 THEN k - 1 ELSE k,
                     IF k < Len(lines) THEN k + 1 ELSE k), " ")

\* A faulty byDate: the context of a line is added to its date even when
\* the date has it already.
RECURSIVE MergeLinesKeepingDuplicates(_, _)
MergeLinesKeepingDuplicates(lines, upto) ==
  IF upto = 0 THEN <<>>
  ELSE LET map == MergeLinesKeepingDuplicates(lines, upto - 1)
           line == lines[upto]
       IN IF DateRegexMatches(line) = {} THEN map
          ELSE LET m == Leftmost(DateRegexMatches(line))
                   dt == ParseDateToLocal(SubSeq(line, m[1], m[2]))
                   ctx == Context(lines, upto)
               IN IF dt = Invalid THEN map
                  ELSE LET localDate == ToISODate(dt) IN
                    IF \E k \in 1..Len(map) : map[k].localDate = localDate
                    THEN LET k == CHOOSE k \in 1..Len(map) :
                                    map[k].localDate = localDate
                         IN [map EXCEPT ![k].bins = Append(@, ctx)]
                    ELSE Append(map, Entry(localDate, <<ctx>>))

\* The results of the loop over the lines, then byDate: one entry per date
\* in first-seen order, its bins Array.from(new Set([...existing, ...bins])).
RECURSIVE MergeLines(_, _)
MergeLines(lines, upto) ==
  IF upto = 0 THEN <<>>
  ELSE LET map == MergeLines(lines, upto - 1)
           line == lines[upto]
       IN IF DateRegexMatches(line) = {} THEN map
          ELSE LET m == Leftmost(DateRegexMatches(line))
                   dt == ParseDateToLocal(SubSeq(line, m[1], m[2]))
                   ctx == Context(lines, upto)
               IN IF dt = Invalid THEN map
                  ELSE LET localDate == ToISODate(dt) IN
                    IF \E k \in 1..Len(map) : map[k].localDate = localDate
                    THEN LET k == CHOOSE k \in 1..Len(map) :
                                    map[k].localDate = localDate
                         IN [map EXCEPT ![k].bins = Unique(Append(@, ctx))]
                    ELSE Append(map, Entry(localDate, <<ctx>>))

\* extractCollections: the table rows first, the lines of the body text
\* when no row gave an entry.  tableHtml is whether the page had a table
\* with rows.
ExtractCollections(rows, lines) ==
  IF Len(MergeRows(rows)) > 0
  THEN [collections |-> MergeRows(rows), tableHtml |-> rows # <<>>]
  ELSE [collections |-> MergeLines(lines, Len(lines)), tableHtml |-> rows # <<>>]

\* A faulty suffix: chosen by the last digit of the day alone.
OrdinalSuffixByLastDigit(day) ==
  IF day % 10 = 1 THEN "st" ELSE IF day % 10 = 2 THEN "nd"
  ELSE IF day % 10 = 3 THEN "rd" ELSE "th"

\* day === 1 || day === 21 || day === 31 ? 'st' : ... : 'th'
OrdinalSuffix(day) ==
  IF day = 1 \/ day = 21 \/ day = 31 THEN "st"
  ELSE IF day = 2 \/ day = 22 THEN "nd"
  ELSE IF day = 3 \/ day = 23 THEN "rd"
  ELSE "th"

\* MMMM of the en locale.
MonthNames ==
  <<"January", "February", "March", "April", "May", "June", "July", "August",
    "September", "October", "November", "December">>

\* formatUKDate(dateStr)
FormatUKDate(str) ==
  LET dt == FromISO(str) IN
    IF dt = Invalid THEN str
    ELSE IntText(dt.day) \o <<OrdinalSuffix(dt.day), " ", MonthNames[dt.month], " ">>
           \o Pad(dt.year, 4)

\* ----------------------------- the pages and dates the functions are given
\* The sequences over S of length at most n.
SeqsUpTo(S, n) == UNION {[1..k -> S] : k \in 0..n}

\* Date cells of the results table: 12 September 2025 written in three
\* ways, 13 September 2025 as an ISO date and inside a longer text, a text
\* without a date, the 31st of February, a date with the month in full.
DateTexts ==
  { <<"1", "2", "/", "9", "/", "2", "0", "2", "5">>,
    <<"1", "2", "/", "0", "9", "/", "2", "5">>,
    <<"1", "2", " ", "S", "e", "p", " ", "2", "0", "2", "5">>,
    <<"2", "0", "2", "5", "-", "0", "9", "-", "1", "3">>,
    <<"F", "r", "i", " ", "1", "3", "/", "9", "/", "2", "0", "2", "5">>,
    <<"t", "b", "c">>,
    <<"1", "2">>,
    <<"3", "1", "/", "2", "/", "2", "0", "2", "5">>,
    <<"1", "3", " ", "S", "e", "p", "t", "e", "m", "b", "e", "r", " ",
      "2", "0", "2", "5">> }

\* tableData.rows: extractRows keeps the rows with two non-empty cells.
TableRows == {Row(d, b) : d \in DateTexts, b \in {GeneralWaste, RecyclingBin}}

\* Lines of the text of a page outside the rows extractRows keeps.
FreeLines ==
  { <<"N", "e", "x", "t">>,
    <<"1", "2", "/", "9", "/", "2", "0", "2", "5">>,
    <<"1", "/", "2", "/", "2", "5", " ", "(", "M", "o", "n", ")", " ", "Recycling">>,
    <<"General Waste">>,
    <<"1", "3", " ", "S", "e", "p", "t", "e", "m", "b", "e", "r", " ",
      "2", "0", "2", "5">> }

\* The lines the rows of a table give in document.body.innerText: one line
\* per row, the cells separated by a tab.
PageLines(rows) ==
  [k \in 1..Len(rows) |-> rows[k].dateText \o <<"\t">> \o rows[k].binsText]

\* The lines of document.body.innerText, which is the text of the whole
\* page: text outside the table, rows that extractRows passes over, and the
\* lines of rows it keeps (a row without a date, a row with one).
BodyLines ==
  FreeLines
    \cup {PageLines(<<Row(<<"t", "b", "c">>, RecyclingBin)>>)[1],
          PageLines(<<Row(<<"1", "2", "/", "9", "/", "2", "0", "2", "5">>,
                          GeneralWaste)>>)[1]}

\* The years of the dates formatted, the first a leap year.
Years == 2024..(2023 + MaxYears)

\* The arguments of formatUKDate: the ISO text of every day number 1..31 of
\* every month of the years, and a text that is no date.
DateStrs ==
  {ToISODate(Date(y, m, d)) : y \in Years,
                              m \in 1..12, d \in 1..31}
    \cup {<<"t", "b", "c">>}



\* ---------------------------------------------------------------- state
VARIABLES
  config,       \* config.addresses, read by loadConfig
  today,        \* the calendar day of the wall clock (DateTime.now())
  store,        \* the state table: key -> lastNotifiedForLocalDate, 0 = none
  pc,           \* where each run stands
  forceNotify,  \* getForceNotify(event) of each run
  tomorrow,     \* the target date of each run
  now,          \* the day each run started on (now.startOf('day'))
  i,            \* the address index of each run (1-based)
  loc,          \* the variables of the address being processed by each run
  seen,         \* history: the address indexes each run began to process
  failedAt,     \* history: <<index, what>> of each failed scrape, read, write
  notified,     \* history: key -> the latest date notified without force, and
                \* how many notifications were delivered for it
  faults,       \* history: the keys a state-table operation failed for
  overlapped,   \* history: some run started while another was running
  addressesIsArray, \* cfg.addresses && Array.isArray(cfg.addresses)
  browser,      \* the browser of each run: "none", "open", "closed"
  thrown,       \* the exception on its way out of the try block of each run
  outcome,      \* how daily settled: "ok" or the error it rejected with
  dadJokePromise, \* the dad joke fetch of each run
  dadJoke,      \* the dadJoke variable of each run
  tableRows,    \* extractCollections: the rows read from the results table
  bodyLines,    \* extractCollections: the lines of the body text
  extracted,    \* extractCollections: <<what it returned>>, <<>> before
  dateStr,      \* formatUKDate: its argument
  formatted,    \* formatUKDate: <<what it returned>>, <<>> before
  pages         \* the pages open in the browser of each run

\* The variables of the functions that are checked outside a run, and the
\* variable no step of a run changes.
pureVars ==
  <<addressesIsArray, tableRows, bodyLines, extracted, dateStr, formatted>>

\* What a step of daily outside the scrape and browser.close() leaves
\* alone: the above, and the pages, which scrapeNextCollections opens and
\* closes and which end with the browser.
outside == <<pureVars, pages>>

vars == <<config, today, store, pc, forceNotify, tomorrow, now, i, loc,
          seen, failedAt, notified, faults, overlapped, browser, thrown,
          outcome, dadJokePromise, dadJoke, outside>>

\* The per-address variables as they are when an iteration of the address
\* loop begins.  stored is a history field: the table's value when the
\* already-notified check ran.  The last six are those of
\* scrapeNextCollections: the navigation states reached, the candidates
\* ensureFormOpen has tried and whether one opened the form, whether
\* getFormFrame scanned the frames, the error thrown, and what
\* extractCollections returned.
FreshLoc ==
  [ scraped |-> FALSE, result |-> <<>>, hasTomorrow |-> FALSE,
    readSt |-> "none", stored |-> 0, alreadyNotified |-> FALSE,
    announced |-> FALSE, announceDate |-> 0, toList |-> <<>>, j |-> 0,
    attempts |-> <<>>, writeSt |-> "none", reads |-> 0, writes |-> 0,
    binsText |-> <<>>, withJoke |-> FALSE, calls |-> 0,
    reached |-> <<>>, tried |-> 0, opened |-> FALSE, scanned |-> FALSE,
    navErr |-> "none", navResult |-> <<>> ]

Address(r) == config[i[r]]
Key(r) == sha256(Address(r).label)
Active(r) == pc[r] \notin {"idle", "done"}
NoneActive == \A r \in Runs : ~Active(r)

\* Whether an entry of config.addresses has a recipients array.
HasRecipients(address) == "recipients" \in DOMAIN address

\* The variables of the functions checked outside a run, at rest.
OutsideAtRest ==
  /\ tableRows = <<>>
  /\ bodyLines = <<>>
  /\ extracted = <<>>
  /\ dateStr = <<>>
  /\ formatted = <<>>

\* The state before any invocation, for a given config file.
DailyInit ==
  /\ today = 1
  /\ store = [k \in Keys |-> 0]
  /\ pc = [r \in Runs |-> "idle"]
  /\ forceNotify = [r \in Runs |-> FALSE]
  /\ tomorrow = [r \in Runs |-> 0]
  /\ now = [r \in Runs |-> 0]
  /\ i = [r \in Runs |-> 0]
  /\ loc = [r \in Runs |-> FreshLoc]
  /\ seen = [r \in Runs |-> {}]
  /\ failedAt = [r \in Runs |-> {}]
  /\ notified = [k \in Keys |-> [date |-> 0, count |-> 0]]
  /\ faults = {}
  /\ overlapped = FALSE
  /\ browser = [r \in Runs |-> "none"]
  /\ thrown = [r \in Runs |-> "none"]
  /\ outcome = [r \in Runs |-> "none"]
  /\ dadJokePromise = [r \in Runs |-> "none"]
  /\ dadJoke = [r \in Runs |-> "undefined"]
  /\ pages = [r \in Runs |-> 0]

\* The config file either has an addresses array or it does not.
Init ==
  /\ addressesIsArray \in BOOLEAN
  /\ config \in (IF addressesIsArray THEN Configs ELSE {<<>>})
  /\ DailyInit
  /\ OutsideAtRest

\* -------------------------------------------------------------- actions
\* The wall clock passes midnight.
Tick ==
  /\ today < MaxDay
  /\ today' = today + 1
  /\ UNCHANGED <<outside, browser, thrown, outcome, dadJokePromise, dadJoke,
                 config, store, pc, forceNotify, tomorrow, now, i, loc,
                 seen, failedAt, notified, faults, overlapped>>

\* loadConfig throws 'config.addresses must be an array'; daily logs the
\* error and rethrows it.
ConfigError(r) ==
  /\ pc[r] = "idle"
  /\ \A q \in Runs : q < r => pc[q] # "idle"
  /\ ~addressesIsArray
  /\ pc' = [pc EXCEPT ![r] = "settled"]
  /\ outcome' = [outcome EXCEPT ![r] = "ConfigError"]
  /\ overlapped' = (overlapped \/ ~NoneActive)
  /\ UNCHANGED <<outside, browser, thrown, dadJokePromise, dadJoke,
                 config, today, store, forceNotify, tomorrow, now, i, loc,
                 seen, failedAt, notified, faults>>

\* daily up to the launch of the browser: the config is loaded, the dad
\* joke fetch is started, tomorrow and the force flag are computed.
Begin(r, force) ==
  /\ pc[r] = "idle"
  /\ \A q \in Runs : q < r => pc[q] # "idle"
  /\ addressesIsArray
  /\ dadJokePromise' = [dadJokePromise EXCEPT ![r] = "pending"]
  /\ forceNotify' = [forceNotify EXCEPT ![r] = force]
  /\ now' = [now EXCEPT ![r] = today]
  /\ tomorrow' = [tomorrow EXCEPT ![r] = Tomorrow(today)]
  /\ i' = [i EXCEPT ![r] = 1]
  /\ pc' = [pc EXCEPT ![r] = "launch"]
  /\ overlapped' = (overlapped \/ ~NoneActive)
  /\ UNCHANGED <<outside, browser, thrown, outcome, dadJoke,
                 config, today, store, loc, seen, failedAt, notified, faults>>

\* An invocation that starts when no other invocation is running.
Start(r) ==
  NoneActive /\ (ConfigError(r) \/ \E force \in BOOLEAN : Begin(r, force))

\* An invocation that may start while another one is running.
OverlapStart(r) == ConfigError(r) \/ \E force \in BOOLEAN : Begin(r, force)

\* await launchBrowser() returns the browser.
LaunchOk(r) ==
  /\ pc[r] = "launch"
  /\ browser' = [browser EXCEPT ![r] = "open"]
  /\ pc' = [pc EXCEPT ![r] = "loop"]
  /\ UNCHANGED <<outside, thrown, outcome, dadJokePromise, dadJoke,
                 config, today, store, forceNotify, tomorrow, now, i, loc,
                 seen, failedAt, notified, faults, overlapped>>

\* await launchBrowser() throws, outside any try block.
LaunchFail(r) ==
  /\ pc[r] = "launch"
  /\ pc' = [pc EXCEPT ![r] = "settled"]
  /\ outcome' = [outcome EXCEPT ![r] = "LaunchError"]
  /\ UNCHANGED <<outside, browser, thrown, dadJokePromise, dadJoke,
                 config, today, store, forceNotify, tomorrow, now, i, loc,
                 seen, failedAt, notified, faults, overlapped>>

\* A faulty daily: the promise has no .catch, a failed request leaves it
\* rejected.
JokeRejectedUncaught(r) ==
  /\ Active(r)
  /\ dadJokePromise[r] = "pending"
  /\ dadJokePromise' = [dadJokePromise EXCEPT ![r] = "rejected"]
  /\ UNCHANGED <<outside, browser, thrown, outcome, dadJoke,
                 config, today, store, pc, forceNotify, tomorrow, now, i, loc,
                 seen, failedAt, notified, faults, overlapped>>

\* The dad joke request answers with a joke: dadJokePromise resolves to it.
JokeFetched(r) ==
  /\ Active(r)
  /\ dadJokePromise[r] = "pending"
  /\ dadJokePromise' = [dadJokePromise EXCEPT ![r] = "joke"]
  /\ UNCHANGED <<outside, browser, thrown, outcome, dadJoke,
                 config, today, store, pc, forceNotify, tomorrow, now, i, loc,
                 seen, failedAt, notified, faults, overlapped>>

\* The dad joke request fails: fetchDadJokeWithTimeout rethrows and the
\* .catch of daily resolves dadJokePromise to null.
JokeRejected(r) ==
  /\ Active(r)
  /\ dadJokePromise[r] = "pending"
  /\ dadJokePromise' = [dadJokePromise EXCEPT ![r] = "null"]
  /\ UNCHANGED <<outside, browser, thrown, outcome, dadJoke,
                 config, today, store, pc, forceNotify, tomorrow, now, i, loc,
                 seen, failedAt, notified, faults, overlapped>>

\* The timer aborts the dad joke request after timeoutMs: 'Dad joke fetch
\* timed out' is thrown and the .catch of daily resolves dadJokePromise to
\* null.
JokeTimedOut(r) ==
  /\ Active(r)
  /\ dadJokePromise[r] = "pending"
  /\ dadJokePromise' = [dadJokePromise EXCEPT ![r] = "null"]
  /\ UNCHANGED <<outside, browser, thrown, outcome, dadJoke,
                 config, today, store, pc, forceNotify, tomorrow, now, i, loc,
                 seen, failedAt, notified, faults, overlapped>>


\* for (let i = 0; i < config.addresses.length; i++)
\* and the log of recipients.join(', '), which throws a TypeError when the
\* entry has no recipients array.
LoopTest(r) ==
  /\ pc[r] = "loop"
  /\ IF i[r] <= Len(config)
     THEN /\ seen' = [seen EXCEPT ![r] = @ \cup {i[r]}]
          /\ IF HasRecipients(config[i[r]])
             THEN /\ pc' = [pc EXCEPT ![r] = "scrape"]
                  /\ UNCHANGED thrown
             ELSE /\ pc' = [pc EXCEPT ![r] = "close"]
                  /\ thrown' = [thrown EXCEPT ![r] = "TypeError"]
     ELSE /\ pc' = [pc EXCEPT ![r] = "close"]
          /\ UNCHANGED <<seen, thrown>>
  /\ UNCHANGED <<outside, browser, outcome, dadJokePromise, dadJoke,
                 config, today, store, forceNotify, tomorrow, now, i, loc,
                 failedAt, notified, faults, overlapped>>

\* result = await scrapeNextCollections(...) returns a schedule.
ScrapeOk(r) ==
  /\ pc[r] = "scrape"
  /\ \E s \in Schedules(today) :
       loc' = [loc EXCEPT ![r].scraped = TRUE, ![r].result = s]
  /\ pc' = [pc EXCEPT ![r] = "gate"]
  /\ UNCHANGED <<outside, browser, thrown, outcome, dadJokePromise, dadJoke,
                 config, today, store, forceNotify, tomorrow, now, i,
                 seen, failedAt, notified, faults, overlapped>>

\* A faulty handler: the scrape error is rethrown, so that it leaves the
\* address loop for the finally block.
ScrapeFailAborts(r) ==
  /\ pc[r] = "scrape"
  /\ failedAt' = [failedAt EXCEPT ![r] = @ \cup {<<i[r], "scrape">>}]
  /\ pc' = [pc EXCEPT ![r] = "close"]
  /\ UNCHANGED <<outside, browser, thrown, outcome, dadJokePromise, dadJoke,
                 config, today, store, forceNotify, tomorrow, now, i, loc,
                 seen, notified, faults, overlapped>>

\* scrapeNextCollections throws: catch (error) { ...; continue; }.  The
\* page it opened is closed, or stays open in the browser when it was
\* page.close() that rejected.
ScrapeFail(r) ==
  /\ pc[r] = "scrape"
  /\ failedAt' = [failedAt EXCEPT ![r] = @ \cup {<<i[r], "scrape">>}]
  /\ pc' = [pc EXCEPT ![r] = "next"]
  /\ \E stays \in BOOLEAN :
       pages' = [pages EXCEPT ![r] = IF stays THEN @ + 1 ELSE @]
  /\ UNCHANGED <<pureVars, browser, thrown, outcome, dadJokePromise, dadJoke,
                 config, today, store, forceNotify, tomorrow, now, i, loc,
                 seen, notified, faults, overlapped>>

\* A faulty gate: the test for a collection tomorrow is left out.
GateNoSkip(r) ==
  /\ pc[r] = "gate"
  /\ loc' = [loc EXCEPT ![r].hasTomorrow =
                          HasTomorrow(loc[r].result, tomorrow[r])]
  /\ pc' = [pc EXCEPT ![r] = IF ~forceNotify[r] THEN "check" ELSE "announce"]
  /\ UNCHANGED <<outside, browser, thrown, outcome, dadJokePromise, dadJoke,
                 config, today, store, forceNotify, tomorrow, now, i,
                 seen, failedAt, notified, faults, overlapped>>

\* hasTomorrow, and: if (!forceNotify && !hasTomorrow) continue;
Gate(r) ==
  /\ pc[r] = "gate"
  /\ LET has == HasTomorrow(loc[r].result, tomorrow[r]) IN
       /\ loc' = [loc EXCEPT ![r].hasTomorrow = has]
       /\ pc' = [pc EXCEPT ![r] =
                   IF ~forceNotify[r] /\ ~has THEN "next"
                   ELSE IF ~forceNotify[r] THEN "check"
                   ELSE "announce"]
  /\ UNCHANGED <<outside, browser, thrown, outcome, dadJokePromise, dadJoke,
                 config, today, store, forceNotify, tomorrow, now, i,
                 seen, failedAt, notified, faults, overlapped>>

\* A faulty check: the result is computed and logged but the iteration is
\* never skipped.
CheckOkNoSkip(r) ==
  /\ pc[r] = "check"
  /\ loc' = [loc EXCEPT ![r].readSt = "ok", ![r].stored = store[Key(r)],
                        ![r].reads = @ + 1,
                        ![r].alreadyNotified =
                           WasNotified(store[Key(r)], tomorrow[r])]
  /\ pc' = [pc EXCEPT ![r] = "announce"]
  /\ UNCHANGED <<outside, browser, thrown, outcome, dadJokePromise, dadJoke,
                 config, today, store, forceNotify, tomorrow, now, i,
                 seen, failedAt, notified, faults, overlapped>>

\* alreadyNotified = await wasNotifiedForDate(addressHash, tomorrow), the
\* read succeeding; if (alreadyNotified) continue;
CheckOk(r) ==
  /\ pc[r] = "check"
  /\ LET already == WasNotified(store[Key(r)], tomorrow[r]) IN
       /\ loc' = [loc EXCEPT ![r].readSt = "ok", ![r].stored = store[Key(r)],
                             ![r].reads = @ + 1,
                             ![r].alreadyNotified = already]
       /\ pc' = [pc EXCEPT ![r] = IF already THEN "next" ELSE "announce"]
  /\ UNCHANGED <<outside, browser, thrown, outcome, dadJokePromise, dadJoke,
                 config, today, store, forceNotify, tomorrow, now, i,
                 seen, failedAt, notified, faults, overlapped>>

\* A faulty handler: a failed read counts as "already notified".
CheckFailSuppresses(r) ==
  /\ pc[r] = "check"
  /\ loc' = [loc EXCEPT ![r].readSt = "fail", ![r].stored = store[Key(r)],
                        ![r].reads = @ + 1,
                        ![r].alreadyNotified = TRUE]
  /\ failedAt' = [failedAt EXCEPT ![r] = @ \cup {<<i[r], "read">>}]
  /\ faults' = faults \cup {Key(r)}
  /\ pc' = [pc EXCEPT ![r] = "next"]
  /\ UNCHANGED <<outside, browser, thrown, outcome, dadJokePromise, dadJoke,
                 config, today, store, forceNotify, tomorrow, now, i,
                 seen, notified, overlapped>>

\* A faulty handler: a read that throws is tried a second time.
CheckFailRetries(r) ==
  /\ pc[r] = "check"
  /\ loc' = [loc EXCEPT ![r].readSt = "fail", ![r].stored = store[Key(r)],
                        ![r].reads = @ + 1]
  /\ failedAt' = [failedAt EXCEPT ![r] = @ \cup {<<i[r], "read">>}]
  /\ faults' = faults \cup {Key(r)}
  /\ pc' = [pc EXCEPT ![r] = IF loc[r].reads = 0 THEN "check" ELSE "announce"]
  /\ UNCHANGED <<outside, browser, thrown, outcome, dadJokePromise, dadJoke,
                 config, today, store, forceNotify, tomorrow, now, i,
                 seen, notified, overlapped>>

\* The read throws: the catch logs, alreadyNotified keeps its false.
CheckFail(r) ==
  /\ pc[r] = "check"
  /\ loc' = [loc EXCEPT ![r].readSt = "fail", ![r].stored = store[Key(r)],
                        ![r].reads = @ + 1]
  /\ failedAt' = [failedAt EXCEPT ![r] = @ \cup {<<i[r], "read">>}]
  /\ faults' = faults \cup {Key(r)}
  /\ pc' = [pc EXCEPT ![r] = "announce"]
  /\ UNCHANGED <<outside, browser, thrown, outcome, dadJokePromise, dadJoke,
                 config, today, store, forceNotify, tomorrow, now, i,
                 seen, notified, overlapped>>

\* The joke a run has in hand after if (!dadJokeResolved) dadJoke = await
\* dadJokePromise: the first await of the run takes the value of the promise.
Awaited(r) ==
  IF dadJoke[r] = "undefined" THEN dadJokePromise[r] ELSE dadJoke[r]

\* announceDate, the bins, the await of dadJokePromise (which waits while
\* the promise is pending and throws when it is rejected), the message,
\* toList = recipients.filter(emailLike).
Announce(r) ==
  /\ pc[r] = "announce"
  /\ dadJoke[r] = "undefined" => dadJokePromise[r] # "pending"
  /\ IF Awaited(r) = "rejected"
     THEN /\ thrown' = [thrown EXCEPT ![r] = "Error"]
          /\ pc' = [pc EXCEPT ![r] = "close"]
          /\ UNCHANGED <<dadJoke, loc>>
     ELSE /\ dadJoke' = [dadJoke EXCEPT ![r] = Awaited(r)]
          /\ LET announceDate ==
                   AnnounceDate(loc[r].result, tomorrow[r], now[r], forceNotify[r])
             IN loc' = [loc EXCEPT
                          ![r].announced = TRUE,
                          ![r].announceDate = announceDate,
                          ![r].binsText = BinsText(loc[r].result, announceDate),
                          ![r].withJoke = (Awaited(r) = "joke"),
                          ![r].toList = ToList(Address(r).recipients),
                          ![r].j = 1]
          /\ pc' = [pc EXCEPT ![r] = "send"]
          /\ UNCHANGED thrown
  /\ UNCHANGED <<outside, browser, outcome, dadJokePromise,
                 config, today, store, forceNotify, tomorrow, now, i,
                 seen, failedAt, notified, faults, overlapped>>

\* History: one more notification of n = <<key, date>>.  The count starts
\* again when a later date is notified.
Count(log, n) ==
  IF log[n[1]].date = n[2]
  THEN [log EXCEPT ![n[1]].count = @ + 1]
  ELSE IF log[n[1]].date < n[2]
       THEN [log EXCEPT ![n[1]] = [date |-> n[2], count |-> 1]]
       ELSE log

\* Whether an email of this iteration has been delivered already.
Delivered(r) ==
  \E k \in 1..Len(loc[r].attempts) :
    loc[r].attempts[k].ok /\ ~loc[r].attempts[k].dry

\* A faulty sendEmail: without the credentials it throws instead of
\* returning.
SendDryRunThrows(r) ==
  /\ pc[r] = "send"
  /\ loc[r].j <= Len(loc[r].toList)
  /\ loc' = [loc EXCEPT
               ![r].attempts = Append(@, [to |-> loc[r].toList[loc[r].j], ok |-> FALSE,
                                          dry |-> TRUE]),
               ![r].j = @ + 1]
  /\ UNCHANGED <<outside, browser, thrown, outcome, dadJokePromise, dadJoke,
                 config, today, store, pc, forceNotify, tomorrow, now, i,
                 seen, failedAt, notified, faults, overlapped>>

\* await sendEmail(email, ...) with one of clientId, clientSecret,
\* refreshToken, sender missing: it logs the dry run and returns before
\* the Gmail client is made; nothing is delivered.
SendDryRun(r) ==
  /\ pc[r] = "send"
  /\ loc[r].j <= Len(loc[r].toList)
  /\ loc' = [loc EXCEPT
               ![r].attempts = Append(@, [to |-> loc[r].toList[loc[r].j], ok |-> TRUE,
                                          dry |-> TRUE]),
               ![r].j = @ + 1]
  /\ UNCHANGED <<outside, browser, thrown, outcome, dadJokePromise, dadJoke,
                 config, today, store, pc, forceNotify, tomorrow, now, i,
                 seen, failedAt, notified, faults, overlapped>>

\* await sendEmail(email, ...) returns after
\* gmail.users.messages.send has.
SendOk(r) ==
  /\ pc[r] = "send"
  /\ loc[r].j <= Len(loc[r].toList)
  /\ loc' = [loc EXCEPT
               ![r].attempts = Append(@, [to |-> loc[r].toList[loc[r].j], ok |-> TRUE,
                                          dry |-> FALSE]),
               ![r].calls = @ + 1,
               ![r].j = @ + 1]
  /\ notified' =
       IF ~forceNotify[r] /\ ~Delivered(r)
       THEN Count(notified, <<Key(r), loc[r].announceDate>>)
       ELSE notified
  /\ UNCHANGED <<outside, browser, thrown, outcome, dadJokePromise, dadJoke,
                 config, today, store, pc, forceNotify, tomorrow, now, i,
                 seen, failedAt, faults, overlapped>>

\* A faulty handler: the send error ends the recipient loop.
SendFailBreaks(r) ==
  /\ pc[r] = "send"
  /\ loc[r].j <= Len(loc[r].toList)
  /\ loc' = [loc EXCEPT
               ![r].attempts = Append(@, [to |-> loc[r].toList[loc[r].j], ok |-> FALSE,
                                          dry |-> FALSE]),
               ![r].calls = @ + 1,
               ![r].j = Len(loc[r].toList) + 1]
  /\ UNCHANGED <<outside, browser, thrown, outcome, dadJokePromise, dadJoke,
                 config, today, store, pc, forceNotify, tomorrow, now, i,
                 seen, failedAt, notified, faults, overlapped>>

\* gmail.users.messages.send throws and sendEmail rethrows: the catch
\* logs the error.
SendFail(r) ==
  /\ pc[r] = "send"
  /\ loc[r].j <= Len(loc[r].toList)
  /\ loc' = [loc EXCEPT
               ![r].attempts = Append(@, [to |-> loc[r].toList[loc[r].j], ok |-> FALSE,
                                          dry |-> FALSE]),
               ![r].calls = @ + 1,
               ![r].j = @ + 1]
  /\ UNCHANGED <<outside, browser, thrown, outcome, dadJokePromise, dadJoke,
                 config, today, store, pc, forceNotify, tomorrow, now, i,
                 seen, failedAt, notified, faults, overlapped>>

\* A faulty handler: markNotified is called only when an email of the
\* iteration was delivered.
SendDoneIfDelivered(r) ==
  /\ pc[r] = "send"
  /\ loc[r].j > Len(loc[r].toList)
  /\ pc' = [pc EXCEPT ![r] =
              IF ShouldMark(forceNotify[r], loc[r].announceDate, tomorrow[r])
                 /\ Delivered(r)
              THEN "mark" ELSE "next"]
  /\ UNCHANGED <<outside, browser, thrown, outcome, dadJokePromise, dadJoke,
                 config, today, store, forceNotify, tomorrow, now, i, loc,
                 seen, failedAt, notified, faults, overlapped>>

\* The recipient loop is over (or toList is empty):
\* if (!forceNotify && isTomorrow) markNotified, else the next address.
SendDone(r) ==
  /\ pc[r] = "send"
  /\ loc[r].j > Len(loc[r].toList)
  /\ pc' = [pc EXCEPT ![r] =
              IF ShouldMark(forceNotify[r], loc[r].announceDate, tomorrow[r])
              THEN "mark" ELSE "next"]
  /\ UNCHANGED <<outside, browser, thrown, outcome, dadJokePromise, dadJoke,
                 config, today, store, forceNotify, tomorrow, now, i, loc,
                 seen, failedAt, notified, faults, overlapped>>

\* await markNotified(addressHash, tomorrow, snapshot) returns:
\* SET lastNotifiedForLocalDate = :d with the run's tomorrow.
MarkOk(r) ==
  /\ pc[r] = "mark"
  /\ store' = [store EXCEPT ![Key(r)] = tomorrow[r]]
  /\ loc' = [loc EXCEPT ![r].writeSt = "ok", ![r].writes = @ + 1]
  /\ pc' = [pc EXCEPT ![r] = "next"]
  /\ UNCHANGED <<outside, browser, thrown, outcome, dadJokePromise, dadJoke,
                 config, today, forceNotify, tomorrow, now, i,
                 seen, failedAt, notified, faults, overlapped>>

\* markNotified throws: the catch logs the error.
MarkFail(r) ==
  /\ pc[r] = "mark"
  /\ loc' = [loc EXCEPT ![r].writeSt = "fail", ![r].writes = @ + 1]
  /\ failedAt' = [failedAt EXCEPT ![r] = @ \cup {<<i[r], "write">>}]
  /\ faults' = faults \cup {Key(r)}
  /\ pc' = [pc EXCEPT ![r] = "next"]
  /\ UNCHANGED <<outside, browser, thrown, outcome, dadJokePromise, dadJoke,
                 config, today, store, forceNotify, tomorrow, now, i,
                 seen, notified, overlapped>>

\* The end of the loop body, reached by falling through or by continue: i++.
NextAddress(r) ==
  /\ pc[r] = "next"
  /\ i' = [i EXCEPT ![r] = @ + 1]
  /\ loc' = [loc EXCEPT ![r] = FreshLoc]
  /\ pc' = [pc EXCEPT ![r] = "loop"]
  /\ UNCHANGED <<outside, browser, thrown, outcome, dadJokePromise, dadJoke,
                 config, today, store, forceNotify, tomorrow, now,
                 seen, failedAt, notified, faults, overlapped>>

\* finally { await browser.close(); }, then return { statusCode: 200 } or
\* the exception that left the try block.  The browser ends, and with it
\* every page left open in it.
Close(r) ==
  /\ pc[r] = "close"
  /\ browser' = [browser EXCEPT ![r] = "closed"]
  /\ pc' = [pc EXCEPT ![r] = "settled"]
  /\ outcome' = [outcome EXCEPT ![r] =
                   IF thrown[r] = "none" THEN "ok" ELSE thrown[r]]
  /\ pages' = [pages EXCEPT ![r] = 0]
  /\ UNCHANGED <<pureVars, thrown, dadJokePromise, dadJoke,
                 config, today, store, forceNotify, tomorrow, now, i, loc,
                 seen, failedAt, notified, faults, overlapped>>

\* await browser.close() throws inside the finally block: its error is what
\* daily rejects with.
CloseFail(r) ==
  /\ pc[r] = "close"
  /\ pc' = [pc EXCEPT ![r] = "settled"]
  /\ outcome' = [outcome EXCEPT ![r] = "CloseError"]
  /\ UNCHANGED <<outside, browser, thrown, dadJokePromise, dadJoke,
                 config, today, store, forceNotify, tomorrow, now, i, loc,
                 seen, failedAt, notified, faults, overlapped>>

\* The invocation is over: its variables are gone.  A browser whose
\* close() rejected lives on, with the pages left open in it.
Return(r) ==
  /\ pc[r] = "settled"
  /\ pc' = [pc EXCEPT ![r] = "done"]
  /\ forceNotify' = [forceNotify EXCEPT ![r] = FALSE]
  /\ tomorrow' = [tomorrow EXCEPT ![r] = 0]
  /\ now' = [now EXCEPT ![r] = 0]
  /\ i' = [i EXCEPT ![r] = 0]
  /\ seen' = [seen EXCEPT ![r] = {}]
  /\ failedAt' = [failedAt EXCEPT ![r] = {}]
  /\ browser' = [browser EXCEPT ![r] = IF @ = "open" THEN "open" ELSE "none"]
  /\ thrown' = [thrown EXCEPT ![r] = "none"]
  /\ outcome' = [outcome EXCEPT ![r] = "none"]
  /\ dadJokePromise' = [dadJokePromise EXCEPT ![r] = "none"]
  /\ dadJoke' = [dadJoke EXCEPT ![r] = "undefined"]
  /\ loc' = [loc EXCEPT ![r] = FreshLoc]
  /\ UNCHANGED <<outside, config, today, store, notified, faults,
                 overlapped>>

\* ------------------------------------- scrapeNextCollections, step by step
\* The candidate texts of ensureFormOpen.
NumCandidates == 6

\* The navigation states, in the order scrapeNextCollections goes through
\* them.
NavStates ==
  <<"PageLoaded", "FrameLocated", "FormOpened", "AddressTyped",
    "SuggestionSelected", "ResultsRendered">>

\* What a step of scrapeNextCollections leaves alone, besides the pages and
\* the failures noted.
navFrame ==
  <<pureVars, browser, thrown, outcome, dadJokePromise, dadJoke, config,
    today, store, forceNotify, tomorrow, now, i, seen, notified, faults,
    overlapped>>

\* const page = await browser.newPage()
NewPage(r) ==
  /\ pc[r] = "scrape"
  /\ pages' = [pages EXCEPT ![r] = @ + 1]
  /\ pc' = [pc EXCEPT ![r] = "agent"]
  /\ UNCHANGED <<navFrame, loc, failedAt>>

\* browser.newPage() throws, before the try block: the error goes to the
\* catch of daily, which continues with the next address.
NewPageFail(r) ==
  /\ pc[r] = "scrape"
  /\ loc' = [loc EXCEPT ![r].navErr = "NewPage"]
  /\ failedAt' = [failedAt EXCEPT ![r] = @ \cup {<<i[r], "scrape">>}]
  /\ pc' = [pc EXCEPT ![r] = "next"]
  /\ UNCHANGED <<navFrame, pages>>

\* await page.setUserAgent(...) returns; page.goto begins.
SetUserAgent(r) ==
  /\ pc[r] = "agent"
  /\ pc' = [pc EXCEPT ![r] = "goto"]
  /\ UNCHANGED <<navFrame, pages, failedAt, loc>>

\* page.setUserAgent throws.
SetUserAgentFail(r) ==
  /\ pc[r] = "agent"
  /\ pc' = [pc EXCEPT ![r] = "pageclose"]
  /\ loc' = [loc EXCEPT ![r].navErr = "UserAgent"]
  /\ UNCHANGED <<navFrame, pages, failedAt>>

\* page.goto(url, { waitUntil: 'networkidle2', timeout: 90000 }) returns;
\* saveScreenshot begins.
GotoOk(r) ==
  /\ pc[r] = "goto"
  /\ pc' = [pc EXCEPT ![r] = "shot"]
  /\ UNCHANGED <<navFrame, pages, failedAt, loc>>

\* page.goto throws (its timeout, a navigation error).
GotoFail(r) ==
  /\ pc[r] = "goto"
  /\ pc' = [pc EXCEPT ![r] = "pageclose"]
  /\ loc' = [loc EXCEPT ![r].navErr = "PageLoad"]
  /\ UNCHANGED <<navFrame, pages, failedAt>>

\* saveScreenshot(page, 'after-goto') returns (it swallows the error of
\* page.screenshot) and the sleep of 1500 ms ends: the page is loaded and
\* getFormFrame begins.
AfterGoto(r) ==
  /\ pc[r] = "shot"
  /\ pc' = [pc EXCEPT ![r] = "frame"]
  /\ loc' = [loc EXCEPT ![r].reached = Append(@, "PageLoaded")]
  /\ UNCHANGED <<navFrame, pages, failedAt>>

\* getFormFrame: waitForSelector('#fillform-frame-1', { timeout: 60000 })
\* gives the iframe; iframeHandle.contentFrame() is called.
ContainerFound(r) ==
  /\ pc[r] = "frame"
  /\ pc' = [pc EXCEPT ![r] = "content"]
  /\ UNCHANGED <<navFrame, pages, failedAt, loc>>

\* getFormFrame: waitForSelector('#fillform-frame-1', { timeout: 60000 })
\* throws its TimeoutError: the iframe did not appear in time.
FrameContainerTimeout(r) ==
  /\ pc[r] = "frame"
  /\ pc' = [pc EXCEPT ![r] = "pageclose"]
  /\ loc' = [loc EXCEPT ![r].navErr = "TimeoutError"]
  /\ UNCHANGED <<navFrame, pages, failedAt>>

\* getFormFrame: contentFrame() gives the frame of the iframe; the sleep
\* and saveScreenshot(page, 'after-frame') follow.
FrameByContainer(r) ==
  /\ pc[r] = "content"
  /\ pc' = [pc EXCEPT ![r] = "open"]
  /\ loc' = [loc EXCEPT ![r].reached = Append(@, "FrameLocated")]
  /\ UNCHANGED <<navFrame, pages, failedAt>>

\* getFormFrame: contentFrame() is null: the loop over page.frames()
\* begins.
FrameNoContent(r) ==
  /\ pc[r] = "content"
  /\ pc' = [pc EXCEPT ![r] = "scan"]
  /\ loc' = [loc EXCEPT ![r].scanned = TRUE]
  /\ UNCHANGED <<navFrame, pages, failedAt>>

\* getFormFrame: iframeHandle.contentFrame() throws.
ContentFrameFail(r) ==
  /\ pc[r] = "content"
  /\ pc' = [pc EXCEPT ![r] = "pageclose"]
  /\ loc' = [loc EXCEPT ![r].navErr = "ContentFrame"]
  /\ UNCHANGED <<navFrame, pages, failedAt>>

\* The loop over page.frames(): a frame has inputs;
\* saveScreenshot(page, 'after-frame') follows.
ScanFound(r) ==
  /\ pc[r] = "scan"
  /\ pc' = [pc EXCEPT ![r] = "open"]
  /\ loc' = [loc EXCEPT ![r].reached = Append(@, "FrameLocated")]
  /\ UNCHANGED <<navFrame, pages, failedAt>>

\* The loop over page.frames() passes its 60000 ms:
\* throw new Error('Could not find a loaded form frame with inputs').
ScanDeadline(r) ==
  /\ pc[r] = "scan"
  /\ pc' = [pc EXCEPT ![r] = "pageclose"]
  /\ loc' = [loc EXCEPT ![r].navErr = "FrameNotFound"]
  /\ UNCHANGED <<navFrame, pages, failedAt>>

\* A faulty ensureFormOpen: the error of a click or of an evaluate is not
\* caught.
OpenTryThrows(r, what) ==
  /\ pc[r] = "open"
  /\ loc[r].tried < NumCandidates
  /\ IF what = "throws"
     THEN /\ loc' = [loc EXCEPT ![r].tried = @ + 1, ![r].navErr = "FormOpen"]
          /\ pc' = [pc EXCEPT ![r] = "pageclose"]
     ELSE LET last == loc[r].tried + 1 = NumCandidates IN
       /\ loc' = [loc EXCEPT
                    ![r].tried = @ + 1,
                    ![r].opened = (what = "opened"),
                    ![r].reached = IF what = "opened" \/ last
                                   THEN Append(@, "FormOpened") ELSE @]
       /\ pc' = [pc EXCEPT ![r] = IF what = "opened" \/ last
                                  THEN "type" ELSE "open"]
  /\ UNCHANGED <<navFrame, pages, failedAt>>

\* ensureFormOpen, one candidate text: clickByText finds no element
\* ("nomatch"), clickByText or the evaluate after it throws ("throws"), the
\* click leaves no input in the frame ("noinput"), or it does ("opened")
\* and ensureFormOpen returns; after the last candidate it returns too.
\* saveFrameHtml(frame, 'after-open') follows the return.
OpenTry(r, what) ==
  /\ pc[r] = "open"
  /\ loc[r].tried < NumCandidates
  /\ LET last == loc[r].tried + 1 = NumCandidates IN
       /\ loc' = [loc EXCEPT
                    ![r].tried = @ + 1,
                    ![r].opened = (what = "opened"),
                    ![r].reached = IF what = "opened" \/ last
                                   THEN Append(@, "FormOpened") ELSE @]
       /\ pc' = [pc EXCEPT ![r] = IF what = "opened" \/ last
                                  THEN "type" ELSE "open"]
  /\ UNCHANGED <<navFrame, pages, failedAt>>

\* typeAndSelectAddress: the input is found, cleared and the label typed;
\* after 700 ms the wait for the options begins.
TypeOk(r) ==
  /\ pc[r] = "type"
  /\ pc' = [pc EXCEPT ![r] = "select"]
  /\ loc' = [loc EXCEPT ![r].reached = Append(@, "AddressTyped")]
  /\ UNCHANGED <<navFrame, pages, failedAt>>

\* typeAndSelectAddress: throw new Error('Address input not found') after
\* saveFrameHtml, or evaluateHandle or page.keyboard.type throws.
TypeFail(r) ==
  /\ pc[r] = "type"
  /\ pc' = [pc EXCEPT ![r] = "pageclose"]
  /\ loc' = [loc EXCEPT ![r].navErr = "AddressInputNotFound"]
  /\ UNCHANGED <<navFrame, pages, failedAt>>

\* typeAndSelectAddress: frame.waitForFunction(..., { timeout: 60000 })
\* returns its handle.
OptionsReady(r) ==
  /\ pc[r] = "select"
  /\ pc' = [pc EXCEPT ![r] = "pick"]
  /\ UNCHANGED <<navFrame, pages, failedAt, loc>>

\* typeAndSelectAddress: frame.waitForFunction(..., { timeout: 60000 })
\* throws: no option appeared in time.
SelectFail(r) ==
  /\ pc[r] = "select"
  /\ pc' = [pc EXCEPT ![r] = "pageclose"]
  /\ loc' = [loc EXCEPT ![r].navErr = "NoSuggestionPopulated"]
  /\ UNCHANGED <<navFrame, pages, failedAt>>

\* typeAndSelectAddress: the frame.evaluate that selects the first option
\* returns.
SelectOk(r) ==
  /\ pc[r] = "pick"
  /\ pc' = [pc EXCEPT ![r] = "results"]
  /\ loc' = [loc EXCEPT ![r].reached = Append(@, "SuggestionSelected")]
  /\ UNCHANGED <<navFrame, pages, failedAt>>

\* typeAndSelectAddress: the handle is empty, saveFrameHtml returns and
\* new Error('Address select dropdown not populated') is thrown; or the
\* frame.evaluate that selects the option throws.
PickFail(r) ==
  /\ pc[r] = "pick"
  /\ pc' = [pc EXCEPT ![r] = "pageclose"]
  /\ loc' = [loc EXCEPT ![r].navErr = "SelectOption"]
  /\ UNCHANGED <<navFrame, pages, failedAt>>

\* waitForResultsTable returns true.
ResultsOk(r) ==
  /\ pc[r] = "results"
  /\ pc' = [pc EXCEPT ![r] = "extract"]
  /\ loc' = [loc EXCEPT ![r].reached = Append(@, "ResultsRendered")]
  /\ UNCHANGED <<navFrame, pages, failedAt>>

\* waitForResultsTable returns false: a waitForSelector passed its
\* timeout.  saveFrameHtml(frame, 'no-results-timeout') is called.
ResultsNotRendered(r) ==
  /\ pc[r] = "results"
  /\ pc' = [pc EXCEPT ![r] = "diag"]
  /\ UNCHANGED <<navFrame, pages, failedAt, loc>>

\* A faulty scrapeNextCollections: tableOk is not looked at.
ResultsTimeoutIgnored(r) ==
  /\ pc[r] = "diag"
  /\ pc' = [pc EXCEPT ![r] = "extract"]
  /\ UNCHANGED <<navFrame, pages, failedAt, loc>>

\* saveFrameHtml(frame, 'no-results-timeout') returns:
\* throw new Error('Results table did not render in time').
ResultsTimeout(r) ==
  /\ pc[r] = "diag"
  /\ pc' = [pc EXCEPT ![r] = "pageclose"]
  /\ loc' = [loc EXCEPT ![r].navErr = "ResultsTimeout"]
  /\ UNCHANGED <<navFrame, pages, failedAt>>

\* saveFrameHtml(frame, 'after-results') returns, then
\* const { collections, tableHtml } = await extractCollections(frame)
ExtractOk(r) ==
  /\ pc[r] = "extract"
  /\ \E s \in Schedules(today) :
       loc' = [loc EXCEPT ![r].navResult = <<s>>]
  /\ pc' = [pc EXCEPT ![r] = "pageclose"]
  /\ UNCHANGED <<navFrame, pages, failedAt>>

\* extractCollections throws (a frame.evaluate does).
ExtractFail(r) ==
  /\ pc[r] = "extract"
  /\ pc' = [pc EXCEPT ![r] = "pageclose"]
  /\ loc' = [loc EXCEPT ![r].navErr = "Extract"]
  /\ UNCHANGED <<navFrame, pages, failedAt>>

\* finally { await page.close(); }: then the return of the schedule to
\* daily, or the error of the try block to its catch, which continues with
\* the next address.
PageClose(r) ==
  /\ pc[r] = "pageclose"
  /\ pages' = [pages EXCEPT ![r] = @ - 1]
  /\ IF loc[r].navErr = "none"
     THEN /\ loc' = [loc EXCEPT ![r] =
                       [FreshLoc EXCEPT !.scraped = TRUE,
                                        !.result = loc[r].navResult[1]]]
          /\ pc' = [pc EXCEPT ![r] = "gate"]
          /\ UNCHANGED failedAt
     ELSE /\ failedAt' = [failedAt EXCEPT ![r] = @ \cup {<<i[r], "scrape">>}]
          /\ pc' = [pc EXCEPT ![r] = "next"]
          /\ UNCHANGED loc
  /\ UNCHANGED navFrame

\* await page.close() throws inside the finally block: its error is what
\* scrapeNextCollections rejects with, whatever the try block did.  Whether
\* the page is gone when close() rejects is the browser's doing: it may be
\* gone, or stay open until the browser is closed.
PageCloseFail(r) ==
  /\ pc[r] = "pageclose"
  /\ \E gone \in BOOLEAN :
       pages' = [pages EXCEPT ![r] = IF gone THEN @ - 1 ELSE @]
  /\ loc' = [loc EXCEPT ![r].navErr = "PageClose", ![r].navResult = <<>>]
  /\ failedAt' = [failedAt EXCEPT ![r] = @ \cup {<<i[r], "scrape">>}]
  /\ pc' = [pc EXCEPT ![r] = "next"]
  /\ UNCHANGED navFrame

\* A step of scrapeNextCollections that is the end of a wait with a
\* timeout of its own and of nothing else: page.goto, the waitForSelector
\* of getFormFrame, the waitForFunction of typeAndSelectAddress, the
\* waitForSelector calls of waitForResultsTable.
TimedNav(r) ==
  \/ GotoOk(r)
  \/ GotoFail(r)
  \/ ContainerFound(r)
  \/ FrameContainerTimeout(r)
  \/ OptionsReady(r)
  \/ SelectFail(r)
  \/ ResultsOk(r)
  \/ ResultsNotRendered(r)

\* A step of scrapeNextCollections that awaits the browser itself, not the
\* page it shows: browser.newPage() and page.close().
BrowserNav(r) ==
  \/ NewPage(r)
  \/ NewPageFail(r)
  \/ PageClose(r)
  \/ PageCloseFail(r)

\* A step of scrapeNextCollections that awaits a call into the page
\* without a timeout of its own: setUserAgent, screenshot, contentFrame, evaluate,
\* evaluateHandle, click, type.
UntimedNav(r) ==
  \/ SetUserAgent(r)
  \/ SetUserAgentFail(r)
  \/ AfterGoto(r)
  \/ FrameByContainer(r)
  \/ FrameNoContent(r)
  \/ ContentFrameFail(r)
  \/ ScanFound(r)
  \/ ScanDeadline(r)
  \/ \E what \in {"nomatch", "throws", "noinput", "opened"} : OpenTry(r, what)
  \/ TypeOk(r)
  \/ TypeFail(r)
  \/ SelectOk(r)
  \/ PickFail(r)
  \/ ResultsTimeout(r)
  \/ ExtractOk(r)
  \/ ExtractFail(r)

\* One step of a started run other than the scrape.
Rest(r) ==
  \/ LaunchOk(r)
  \/ LaunchFail(r)
  \/ JokeFetched(r)
  \/ JokeRejected(r)
  \/ JokeTimedOut(r)
  \/ LoopTest(r)
  \/ Gate(r)
  \/ CheckOk(r)
  \/ CheckFail(r)
  \/ Announce(r)
  \/ SendDryRun(r)
  \/ SendOk(r)
  \/ SendFail(r)
  \/ SendDone(r)
  \/ MarkOk(r)
  \/ MarkFail(r)
  \/ NextAddress(r)
  \/ Close(r)
  \/ CloseFail(r)
  \/ Return(r)

\* One step of a started run, the scrape being one step.
Step(r) == ScrapeOk(r) \/ ScrapeFail(r) \/ Rest(r)

\* One step of a started run, the scrape being followed await by await.
NavStep(r) == BrowserNav(r) \/ TimedNav(r) \/ UntimedNav(r) \/ Rest(r)

\* Invocations one after the other (the daily schedule).
Next == Tick \/ \E r \in Runs : Start(r) \/ Step(r)

Spec == Init /\ [][Next]_vars

\* Invocations that may overlap (a manual or retried invocation while the
\* scheduled one is still running).
OverlapNext == Tick \/ \E r \in Runs : OverlapStart(r) \/ Step(r)

\* Overlapping invocations are followed over the single-address lists.
OverlapInit == Init /\ Len(config) <= 1

OverlapSpec == OverlapInit /\ [][OverlapNext]_vars

\* One invocation after the other, each scrape followed await by await,
\* over the lists of two addresses; the wall clock stands still.
NavNext == \E r \in Runs : Start(r) \/ NavStep(r)

NavInit == Init /\ Len(config) = 2

NavSpec == NavInit /\ [][NavNext]_vars

\* The same, where no await stays pending for ever: the browser and the
\* services of daily answer, a wait with a timeout of its own ends, and a
\* call into the page without one is answered or rejected by the protocol
\* timeout of the connection to the browser, which launchBrowser leaves at
\* the default of the library.
NavFairSpec == NavSpec /\ \A r \in Runs : WF_vars(NavStep(r))

\* ------------------------------------------- the functions on their own
\* The variables of daily.
dailyVars ==
  <<config, today, store, pc, forceNotify, tomorrow, now, i, loc, seen,
    failedAt, notified, faults, overlapped, browser, thrown, outcome,
    dadJokePromise, dadJoke, addressesIsArray, pages>>

\* No invocation of daily is under way.
DailyAtRest ==
  /\ addressesIsArray = TRUE
  /\ config = <<>>
  /\ DailyInit

\* extractCollections is given a page: the rows extractRows keeps of its
\* first table with such rows, and the lines of document.body.innerText,
\* which holds more than those rows and, where the table is not rendered,
\* less.  The text is read only when no row gave an entry: bodyLines are
\* the lines read, none when extractCollections returns before.
ExtractInit ==
  /\ DailyAtRest
  /\ tableRows \in SeqsUpTo(TableRows, MaxRows)
  /\ bodyLines \in IF Len(MergeRows(tableRows)) > 0 THEN {<<>>}
                   ELSE SeqsUpTo(BodyLines, MaxLines)
  /\ extracted = <<>>
  /\ dateStr = <<>>
  /\ formatted = <<>>

\* extractCollections(frame) returns.
Extract ==
  /\ extracted = <<>>
  /\ extracted' = <<ExtractCollections(tableRows, bodyLines)>>
  /\ UNCHANGED <<dailyVars, tableRows, bodyLines, dateStr, formatted>>

ExtractSpec == ExtractInit /\ [][Extract]_vars

\* formatUKDate is given a date text.
FormatInit ==
  /\ DailyAtRest
  /\ tableRows = <<>>
  /\ bodyLines = <<>>
  /\ extracted = <<>>
  /\ dateStr \in DateStrs
  /\ formatted = <<>>

\* formatUKDate(dateStr) returns.
Format ==
  /\ formatted = <<>>
  /\ formatted' = <<FormatUKDate(dateStr)>>
  /\ UNCHANGED <<dailyVars, tableRows, bodyLines, extracted, dateStr>>

FormatSpec == FormatInit /\ [][Format]_vars


\* --------------------------------------------------------------- claims
\* C1 as stated: under non-forced operation at most one notification is
\* delivered per address per calendar date, over any sequence of runs.
C1_Original == \A k \in Keys : notified[k].count <= 1

\* C1 amended: at most one notification is delivered per address per date
\* over any sequence of non-forced runs, as long as no read or write of the
\* address's notification state has failed.
C1_Amended ==
  \A k \in Keys : k \notin faults => notified[k].count <= 1

\* C1's case: the first run notified the address once, and a later run for
\* the same target date read the state and skipped it.
C1_Witness ==
  /\ pc[1] = "done"
  /\ pc[2] = "next"
  /\ loc[2].alreadyNotified
  /\ Key(2) \notin faults
  /\ notified[Key(2)] = [date |-> tomorrow[2], count |-> 1]

\* C2 as stated: in a non-forced run the date is persisted for an address
\* only after an email to that address was sent successfully in the same
\* iteration.
C2_Claim ==
  \A r \in Runs :
    ~forceNotify[r] /\ loc[r].writeSt = "ok" => Delivered(r)

\* C3 as stated: in a non-forced run, when the stored date equals the
\* target date at the already-notified check, nothing is announced: no
\* email is attempted and the state table is not written.
C3_Original ==
  \A r \in Runs :
    ~forceNotify[r] /\ loc[r].readSt # "none" /\ loc[r].stored = tomorrow[r]
      => /\ ~loc[r].announced
         /\ loc[r].attempts = <<>>
         /\ loc[r].writeSt = "none"

\* C3 amended: in a non-forced run, when the read of the stored state
\* succeeds and the stored date equals the target date, nothing is
\* announced: no email is attempted and the state table is not written,
\* even though the schedule contains the target date.
C3_Amended ==
  \A r \in Runs :
    ~forceNotify[r] /\ loc[r].readSt = "ok" /\ loc[r].stored = tomorrow[r]
      => /\ ~loc[r].announced
         /\ loc[r].attempts = <<>>
         /\ loc[r].writeSt = "none"
         /\ pc[r] = "next"

\* C3's case: the check read a stored date equal to the target date while
\* the schedule contains the target date.
C3_Witness ==
  \E r \in Runs :
    /\ pc[r] = "next"
    /\ ~forceNotify[r]
    /\ loc[r].readSt = "ok"
    /\ loc[r].stored = tomorrow[r]
    /\ HasTomorrow(loc[r].result, tomorrow[r])

\* C4 as stated: when two non-forced runs for the same address and the
\* same target date overlap, at most one of them sends the notification
\* (both reads of the state succeeding).
C4_Claim ==
  \A r1 \in Runs : \A r2 \in Runs :
    /\ r1 # r2
    /\ Active(r1) /\ Active(r2)
    /\ ~forceNotify[r1] /\ ~forceNotify[r2]
    /\ tomorrow[r1] = tomorrow[r2]
    /\ loc[r1].readSt = "ok" /\ loc[r2].readSt = "ok"
    /\ Key(r1) = Key(r2)
    => ~(Delivered(r1) /\ Delivered(r2))

\* C5: a failed scrape or a failed decision step (the state read) of one
\* address does not end the run: the address loop is left only after every
\* address of the list has been processed, and a run that has started can
\* always take a step until it has returned.
C5_RunContinues ==
  \A r \in Runs :
    /\ pc[r] = "close" /\ thrown[r] = "none" => seen[r] = 1..Len(config)
    /\ thrown[r] # "none" => ~HasRecipients(config[i[r]])
    /\ pc[r] \in {"scrape", "gate", "check", "announce", "send", "mark", "next"}
         => seen[r] = 1..i[r]
    /\ pc[r] = "loop" => seen[r] = 1..(i[r] - 1)
    /\ Active(r) => ENABLED Step(r)

\* C5's case: the scrape of the first of two addresses failed and the run
\* went on to the second and reached the end of the loop.
C5_Witness ==
  \E r \in Runs :
    /\ pc[r] = "close"
    /\ Len(config) = 2
    /\ <<1, "scrape">> \in failedAt[r]
    /\ seen[r] = {1, 2}

\* C6: in a non-forced run, an address whose schedule has no entry on the
\* target date gets no action: the state is neither read nor written, no
\* email is attempted, and the iteration ends at the gate.
C6_NoTargetNoAction ==
  \A r \in Runs :
    Active(r) /\ ~forceNotify[r] /\ loc[r].scraped
      /\ ~(\E k \in DOMAIN loc[r].result : loc[r].result[k].localDate = tomorrow[r])
    => /\ loc[r].readSt = "none"
       /\ loc[r].writeSt = "none"
       /\ loc[r].attempts = <<>>
       /\ ~loc[r].announced
       /\ pc[r] \in {"gate", "next"}

\* C6's case: a non-forced run scraped a schedule with entries, none of
\* them on the target date, and has finished with the address.
C6_Witness ==
  \E r \in Runs :
    /\ pc[r] = "next"
    /\ ~forceNotify[r]
    /\ loc[r].scraped
    /\ loc[r].result # <<>>
    /\ ~HasTomorrow(loc[r].result, tomorrow[r])

\* The dates of a schedule that are at or after the day the run started.
DatesFromToday(r) ==
  {loc[r].result[k].localDate : k \in DOMAIN loc[r].result} \ (0..(now[r] - 1))

\* C7 as stated: when the schedule has an entry on the target date the
\* announce date is the target date; otherwise (force mode) it is the
\* earliest date at or after today; and when no entry qualifies no email is
\* sent.
C7_Claim ==
  \A r \in Runs :
    loc[r].announced =>
      IF \E k \in DOMAIN loc[r].result : loc[r].result[k].localDate = tomorrow[r]
      THEN loc[r].announceDate = tomorrow[r]
      ELSE IF DatesFromToday(r) # {}
           THEN /\ forceNotify[r]
                /\ loc[r].announceDate \in DatesFromToday(r)
                /\ \A d \in DatesFromToday(r) : loc[r].announceDate <= d
           ELSE loc[r].attempts = <<>>

\* C8 as stated: the stored date of a key never decreases, over any
\* sequence or interleaving of runs.
C8_Claim == [][\A k \in Keys : store'[k] >= store[k]]_vars

\* The recipients of the attempts made so far, in order.
Attempted(r) == [k \in 1..Len(loc[r].attempts) |-> loc[r].attempts[k].to]

\* The valid recipients of the address being processed, in list order.
ValidRecipients(r) == SelectSeq(Address(r).recipients, EmailLike)

\* C9: whichever sends fail, the attempts of an iteration are the valid
\* recipients of the address, each once and in list order: a prefix of
\* them while the loop runs and all of them once it is over.
C9_EveryRecipientOnce ==
  \A r \in Runs :
    loc[r].announced =>
      /\ Len(Attempted(r)) <= Len(ValidRecipients(r))
      /\ Attempted(r) = SubSeq(ValidRecipients(r), 1, Len(Attempted(r)))
      /\ pc[r] \in {"mark", "next"} => Attempted(r) = ValidRecipients(r)

\* C9's case: of three recipients the second is not an email address; the
\* send to the first failed and the third was still attempted.
C9_Witness ==
  \E r \in Runs :
    /\ pc[r] = "next"
    /\ Len(Address(r).recipients) = 3
    /\ Len(loc[r].attempts) = 2
    /\ ~loc[r].attempts[1].ok
    /\ loc[r].attempts[2].to = Address(r).recipients[3]

\* C10: a failed read of the state counts as "not notified", so the
\* iteration goes on to announce; a failed write ends the iteration
\* normally and leaves the stored date as it was read, so the address is
\* notified again by the next run; neither ends the run.
C10_StoreFailuresIsolated ==
  \A r \in Runs :
    /\ loc[r].readSt = "fail" =>
         /\ ~loc[r].alreadyNotified
         /\ pc[r] \in {"announce", "send", "mark", "next"}
         /\ pc[r] # "announce" => loc[r].announced
    /\ loc[r].writeSt = "fail" =>
         /\ pc[r] = "next"
         /\ store[Key(r)] = loc[r].stored
    /\ pc[r] = "close" /\ thrown[r] = "none" => seen[r] = 1..Len(config)

\* C10's case: for the first of two addresses both the read and the write
\* failed, the address was notified all the same, and the run went on to
\* the second address and reached the end of the loop.
C10_Witness ==
  \E r \in Runs :
    /\ pc[r] = "close"
    /\ Len(config) = 2
    /\ {<<1, "read">>, <<1, "write">>} \subseteq failedAt[r]
    /\ seen[r] = {1, 2}
    /\ notified[sha256(config[1].label)].count >= 1

\* C11 as stated: a run that completes its address loop returns the success
\* result, and daily rejects only with a configuration error or with the
\* error of a browser that could not be launched.
C11_Claim ==
  \A r \in Runs :
    pc[r] = "settled" =>
      /\ outcome[r] \in {"ok", "ConfigError", "LaunchError"}
      /\ browser[r] # "none" /\ thrown[r] = "none" => outcome[r] = "ok"

\* Whether the address list of the config file is malformed: addresses is
\* not an array, or an entry of it has no recipients array.
Malformed ==
  \/ ~addressesIsArray
  \/ \E k \in 1..Len(config) : ~HasRecipients(config[k])

\* C12 as stated: with a malformed address list a run ends at once with the
\* configuration error: no browser is launched and no address is begun.
C12_Claim ==
  \A r \in Runs :
    Malformed /\ Active(r) =>
      /\ pc[r] = "settled"
      /\ outcome[r] = "ConfigError"
      /\ browser[r] = "none"
      /\ seen[r] = {}

\* C13: the dad joke fetch never fails the run and never blocks it: no
\* exception and no result of a run comes from the fetch, a run that waits
\* for the fetch is released by the timer, a run whose fetch has settled
\* goes on, and the fetch decides nothing but whether the message carries
\* the joke.
C13_JokeNeverFailsRun ==
  \A r \in Runs :
    /\ thrown[r] \in {"none", "TypeError"}
    /\ outcome[r] \in {"none", "ok", "ConfigError", "LaunchError", "TypeError",
                       "CloseError"}
    /\ dadJokePromise[r] \in {"none", "pending", "joke", "null"}
    /\ pc[r] = "announce" =>
         IF dadJoke[r] = "undefined" /\ dadJokePromise[r] = "pending"
         THEN ENABLED JokeTimedOut(r)
         ELSE ENABLED Announce(r)
    /\ loc[r].announced =>
         /\ loc[r].withJoke = (dadJokePromise[r] = "joke")
         /\ loc[r].announceDate =
              AnnounceDate(loc[r].result, tomorrow[r], now[r], forceNotify[r])
         /\ loc[r].toList = ToList(Address(r).recipients)

\* C13's case: the fetch failed or timed out, and the address was notified
\* all the same, without the joke.
C13_Witness ==
  \E r \in Runs :
    /\ pc[r] = "next"
    /\ dadJokePromise[r] = "null"
    /\ loc[r].announced
    /\ ~loc[r].withJoke
    /\ Delivered(r)

\* C14 as stated: by the end of an iteration the notification state of the
\* address has been read exactly once and written at most once, and a write
\* comes after the read.
C14_Original ==
  \A r \in Runs :
    /\ pc[r] = "next" => loc[r].reads = 1
    /\ loc[r].writes <= 1
    /\ loc[r].writes = 1 => loc[r].reads = 1

\* C14 amended: in an iteration the notification state of the address is
\* read at most once and written at most once, and a write comes after the
\* read; it is read exactly when the run is not forced and the schedule has
\* an entry on the target date, and not at all otherwise.
C14_Amended ==
  \A r \in Runs :
    /\ loc[r].reads <= 1
    /\ loc[r].writes <= 1
    /\ loc[r].writes = 1 => loc[r].reads = 1
    /\ pc[r] \in {"announce", "send", "mark", "next"} =>
         (loc[r].reads = 1 <=>
            ~forceNotify[r] /\ loc[r].scraped
              /\ HasTomorrow(loc[r].result, tomorrow[r]))

\* C14's case: an iteration that read the state once and then wrote it
\* once.
C14_Witness ==
  \E r \in Runs :
    pc[r] = "next" /\ loc[r].reads = 1 /\ loc[r].writes = 1

\* C15: in a non-forced run, once the recipient loop of an announcement for
\* the target date is over, markNotified is called with the target date
\* whatever the sends did, and when it returns the stored date is the
\* target date.
C15_MarkedWhateverTheSends ==
  \A r \in Runs :
    ~forceNotify[r] /\ loc[r].announced /\ loc[r].announceDate = tomorrow[r] =>
      /\ pc[r] \in {"send", "mark", "next"}
      /\ pc[r] = "next" => loc[r].writeSt # "none"
      /\ loc[r].writeSt = "ok" => store[Key(r)] = tomorrow[r]

\* C15's case: every send of the iteration failed and the target date was
\* stored.
C15_Witness ==
  \E r \in Runs :
    /\ pc[r] = "next"
    /\ ~forceNotify[r]
    /\ loc[r].attempts # <<>>
    /\ ~Delivered(r)
    /\ loc[r].writeSt = "ok"
    /\ store[Key(r)] = tomorrow[r]

\* The bins named in a text: its pieces that are not separators, each a
\* bin text.
BinsIn(text) ==
  {<<text[k]>> : k \in {h \in 1..Len(text) : text[h] \notin {", ", " | ", " + "}}}

\* The bins of a sequence of schedule entries.
BinsOf(entries) ==
  UNION {{entries[k].bins[b] : b \in 1..Len(entries[k].bins)} :
           k \in 1..Len(entries)}

\* C16 as stated: the bins of an announcement are the bins of the schedule
\* entries dated announceDate, and the bins of every entry of the schedule
\* when no entry is dated announceDate.
C16_Claim ==
  \A r \in Runs :
    loc[r].announced =>
      BinsIn(loc[r].binsText) =
        IF EntriesOn(loc[r].result, loc[r].announceDate) # <<>>
        THEN BinsOf(EntriesOn(loc[r].result, loc[r].announceDate))
        ELSE BinsOf(loc[r].result)

\* The rows of the table whose date text parses to the date with ISO text d.
RowsOn(d) ==
  {k \in 1..Len(tableRows) :
     /\ ParseDateToLocal(tableRows[k].dateText) # Invalid
     /\ ToISODate(ParseDateToLocal(tableRows[k].dateText)) = d}

\* The first row of the table on date d with bin text b.
FirstRow(d, b) ==
  CHOOSE k \in RowsOn(d) :
    /\ tableRows[k].binsText = b
    /\ \A h \in RowsOn(d) : tableRows[h].binsText = b => k <= h

\* The first row of the table on date d.
FirstRowOn(d) == CHOOSE k \in RowsOn(d) : \A h \in RowsOn(d) : k <= h

\* C18: the rows of the table whose date texts resolve to one date make
\* one entry; its bins are the bin texts of those rows, each once, in the
\* order the rows first give them; the entries come in the order their
\* dates first appear in the table.
C18_RowsMergedByDate ==
  extracted # <<>> /\ (\E k \in 1..Len(tableRows) :
                         ParseDateToLocal(tableRows[k].dateText) # Invalid) =>
    LET c == extracted[1].collections IN
      /\ \A k \in 1..Len(tableRows) :
           ParseDateToLocal(tableRows[k].dateText) # Invalid =>
             \E e \in 1..Len(c) :
               /\ c[e].localDate =
                    ToISODate(ParseDateToLocal(tableRows[k].dateText))
               /\ \E b \in 1..Len(c[e].bins) : c[e].bins[b] = tableRows[k].binsText
      /\ \A e \in 1..Len(c) :
           /\ RowsOn(c[e].localDate) # {}
           /\ \A f \in 1..Len(c) : c[f].localDate = c[e].localDate => f = e
           /\ \A f \in 1..Len(c) :
                e < f => FirstRowOn(c[e].localDate) < FirstRowOn(c[f].localDate)
           /\ \A b \in 1..Len(c[e].bins) :
                /\ \E k \in RowsOn(c[e].localDate) :
                     tableRows[k].binsText = c[e].bins[b]
                /\ \A a \in 1..Len(c[e].bins) :
                     /\ c[e].bins[a] = c[e].bins[b] => a = b
                     /\ a < b => FirstRow(c[e].localDate, c[e].bins[a])
                                  < FirstRow(c[e].localDate, c[e].bins[b])

\* C18's case: two rows write one date in two ways and name different
\* bins; they have become one entry with both bins, the first row's first.
C18_Witness ==
  /\ extracted # <<>>
  /\ Len(tableRows) = 2
  /\ tableRows[1].dateText # tableRows[2].dateText
  /\ tableRows[1].binsText # tableRows[2].binsText
  /\ Len(extracted[1].collections) = 1
  /\ extracted[1].collections[1].bins =
       <<tableRows[1].binsText, tableRows[2].binsText>>

\* The day of the month of the date text formatUKDate was given.
DayOf(str) == FromISO(str).day

\* C19: for a date on day 1..31 of a month the formatted date begins with
\* the day and its English ordinal suffix: st for 1, 21, 31, nd for 2, 22,
\* rd for 3, 23, th for every other day.
C19_OrdinalSuffix ==
  formatted # <<>> /\ FromISO(dateStr) # Invalid =>
    /\ DayOf(dateStr) \in 1..31
    /\ SubSeq(formatted[1], 1, Len(IntText(DayOf(dateStr)))) = IntText(DayOf(dateStr))
    /\ formatted[1][Len(IntText(DayOf(dateStr))) + 1] =
         (IF DayOf(dateStr) \in {1, 21, 31} THEN "st"
          ELSE IF DayOf(dateStr) \in {2, 22} THEN "nd"
          ELSE IF DayOf(dateStr) \in {3, 23} THEN "rd"
          ELSE "th")
    /\ formatted[1][Len(IntText(DayOf(dateStr))) + 2] = " "

\* C19's case: the 11th of a month has been formatted, with th.
C19_Witness ==
  /\ formatted # <<>>
  /\ FromISO(dateStr) # Invalid
  /\ DayOf(dateStr) = 11
  /\ SubSeq(formatted[1], 1, 3) = <<"1", "1", "th">>

\* The rows of the table whose date text parses.
ParsingRows ==
  SelectSeq(tableRows, LAMBDA row : ParseDateToLocal(row.dateText) # Invalid)

\* A text names a date when a day, a month and a year stand in it in one
\* of the written forms: digits with slashes, day, month name and year, or
\* an ISO date.
NamesDate(s) == DateRegexMatches(s) # {}

\* C20 as stated: a date text that names no date parses to null, and a
\* table with a row whose date does not parse gives what the table without
\* that row gives on the same page: the row is dropped and every other row
\* is extracted.
C20_Claim ==
  /\ extracted # <<>> =>
       \A k \in 1..Len(tableRows) :
         ~NamesDate(tableRows[k].dateText)
           => ParseDateToLocal(tableRows[k].dateText) = Invalid
  /\ extracted # <<>> /\ ParsingRows # <<>> =>
       /\ extracted[1].collections =
            ExtractCollections(ParsingRows, bodyLines).collections
       /\ \A k \in 1..Len(tableRows) :
            ParseDateToLocal(tableRows[k].dateText) # Invalid =>
              \E e \in 1..Len(extracted[1].collections) :
                \E b \in 1..Len(extracted[1].collections[e].bins) :
                  /\ extracted[1].collections[e].bins[b] = tableRows[k].binsText
                  /\ extracted[1].collections[e].localDate =
                       ToISODate(ParseDateToLocal(tableRows[k].dateText))


\* The lines of the body text in which dateRegex finds a date.
MatchingLines ==
  {k \in 1..Len(bodyLines) : DateRegexMatches(bodyLines[k]) # {}}

\* The text dateRegex finds in line k of the body text.
MatchedDate(k) ==
  LET m == Leftmost(DateRegexMatches(bodyLines[k]))
  IN SubSeq(bodyLines[k], m[1], m[2])

\* C24 as stated: what extraction returns has the fields collections and
\* tableHtml and entries of a date and bins on either path; when a table
\* row gives an entry the bins are bin texts of the rows; when none does,
\* every line of the body text that matches the date pattern has an entry,
\* dated by the date parsed from it, with its three-line context among the
\* bins, every bin is such a context and no context is there twice.
C24_Claim ==
  extracted # <<>> =>
    LET c == extracted[1].collections IN
      /\ DOMAIN extracted[1] = {"collections", "tableHtml"}
      /\ \A e \in 1..Len(c) : DOMAIN c[e] = {"localDate", "bins"}
      /\ ParsingRows # <<>> =>
           \A e \in 1..Len(c) : \A b \in 1..Len(c[e].bins) :
             \E k \in 1..Len(tableRows) : tableRows[k].binsText = c[e].bins[b]
      /\ ParsingRows = <<>> =>
           /\ \A k \in MatchingLines :
                \E e \in 1..Len(c) : \E b \in 1..Len(c[e].bins) :
                  c[e].bins[b] = Context(bodyLines, k)
           /\ \A e \in 1..Len(c) : \A b \in 1..Len(c[e].bins) :
                /\ \E k \in MatchingLines :
                     /\ c[e].bins[b] = Context(bodyLines, k)
                     /\ c[e].localDate =
                          ToISODate(ParseDateToLocal(MatchedDate(k)))
                /\ \A a \in 1..Len(c[e].bins) :
                     c[e].bins[a] = c[e].bins[b] => a = b

\* C27: a schedule returned by extractCollections, from the table or from
\* the body text, has no two entries of one date, and the bins of an entry
\* are a non-empty list of non-empty texts none of which is there twice.
C27_ScheduleWellFormed ==
  extracted # <<>> =>
    LET c == extracted[1].collections IN
      \A e \in 1..Len(c) :
        /\ \A f \in 1..Len(c) : c[f].localDate = c[e].localDate => f = e
        /\ c[e].bins # <<>>
        /\ \A b \in 1..Len(c[e].bins) :
             /\ c[e].bins[b] # <<>>
             /\ \A a \in 1..Len(c[e].bins) :
                  c[e].bins[a] = c[e].bins[b] => a = b

\* C27's case: a page without a table has the same date line twice; the
\* two lines have the same context and the date has it once.
C27_Witness ==
  /\ extracted # <<>>
  /\ tableRows = <<>>
  /\ Len(bodyLines) = 2
  /\ bodyLines[1] = bodyLines[2]
  /\ Len(extracted[1].collections) = 1
  /\ extracted[1].collections[1].bins = <<Context(bodyLines, 1)>>


\* C26: while a forced run is on its way the state table does not change
\* and the run has made no read and no write of it for the address it is
\* at, whatever the date it announces.
C26_ForcedRunLeavesState ==
  [][\A r \in Runs :
       forceNotify[r] =>
         /\ store' = store
         /\ loc'[r].reads = 0 /\ loc'[r].readSt = "none"
         /\ loc'[r].writes = 0 /\ loc'[r].writeSt = "none"]_vars

\* C26's case: a forced run has announced the target date itself, sent an
\* email and come to the end of the iteration without a read or a write.
C26_Witness ==
  \E r \in Runs :
    /\ forceNotify[r]
    /\ pc[r] = "next"
    /\ loc[r].announced
    /\ loc[r].announceDate = tomorrow[r]
    /\ Delivered(r)
    /\ loc[r].reads = 0
    /\ loc[r].writes = 0

\* The attempts of the iteration that were dry runs.
DryRuns(r) == {k \in 1..Len(loc[r].attempts) : loc[r].attempts[k].dry}

\* C29: a send without the credentials returns normally and makes no call
\* of the mail transport (the calls made are the attempts that were not
\* dry runs), and a non-forced iteration that announced the target date
\* goes on to write the state after it, even when every send was a dry
\* run.
C29_DryRunCountsAsSent ==
  \A r \in Runs :
    /\ \A k \in DryRuns(r) : loc[r].attempts[k].ok
    /\ loc[r].calls = Len(loc[r].attempts) - Cardinality(DryRuns(r))
    /\ pc[r] \in {"mark", "next"} /\ DryRuns(r) # {}
         => /\ Len(loc[r].attempts) = Len(loc[r].toList)
            /\ ~forceNotify[r] /\ loc[r].announceDate = tomorrow[r]
                 => pc[r] = "mark" \/ loc[r].writeSt # "none"

\* C29's case: every send of a non-forced iteration on the target date was
\* a dry run, the transport was never called, and the date was written.
C29_Witness ==
  \E r \in Runs :
    /\ ~forceNotify[r]
    /\ pc[r] = "next"
    /\ loc[r].attempts # <<>>
    /\ DryRuns(r) = 1..Len(loc[r].attempts)
    /\ loc[r].calls = 0
    /\ loc[r].writeSt = "ok"
    /\ store[Key(r)] = tomorrow[r]

\* C30: the read of the state succeeding, the iteration is skipped as
\* already notified exactly when the stored date equals the target date;
\* with no stored date, an earlier or a later one, a schedule with the
\* target date takes the iteration past the check to the announcement and
\* the sends.
C30_OnlyEqualSuppresses ==
  \A r \in Runs :
    /\ loc[r].readSt = "ok" =>
         (loc[r].alreadyNotified <=> loc[r].stored = tomorrow[r])
    /\ /\ ~forceNotify[r]
       /\ loc[r].scraped
       /\ HasTomorrow(loc[r].result, tomorrow[r])
       /\ loc[r].readSt = "ok"
       /\ loc[r].stored # tomorrow[r]
       => /\ pc[r] \in {"announce", "send", "mark", "next"}
          /\ pc[r] # "announce" => loc[r].announced

\* C30's case: the stored date is after the target date of the run (a run
\* begun a day later wrote it) and the iteration has made its sends.
C30_Witness ==
  \E r \in Runs :
    /\ ~forceNotify[r]
    /\ loc[r].readSt = "ok"
    /\ loc[r].stored > tomorrow[r]
    /\ loc[r].announced
    /\ pc[r] = "next"
    /\ loc[r].attempts # <<>>


\* The navigation states scrapeNextCollections has reached when it stands
\* at a step.
ReachedAt(step) ==
  CASE step \in {"agent", "goto", "shot"} -> 0
    [] step \in {"frame", "content", "scan"} -> 1
    [] step = "open" -> 2
    [] step = "type" -> 3
    [] step \in {"select", "pick"} -> 4
    [] step \in {"results", "diag"} -> 5
    [] step = "extract" -> 6

\* C21: the navigation states of an address are reached in the order
\* PageLoaded, FrameLocated, FormOpened, AddressTyped, SuggestionSelected,
\* ResultsRendered, none left out; the schedule is extracted only after
\* ResultsRendered; and an error thrown on the way reaches the catch of
\* daily: the address has no schedule, no email, no read and no write of
\* the state, and the loop goes on to the next address.
C21_NavigationInOrder ==
  \A r \in Runs :
    /\ loc[r].reached = SubSeq(NavStates, 1, Len(loc[r].reached))
    /\ pc[r] \in {"agent", "goto", "shot", "frame", "content", "scan", "open",
                  "type", "select", "pick", "results", "diag", "extract"}
         => Len(loc[r].reached) = ReachedAt(pc[r])
    /\ loc[r].navResult # <<>> => loc[r].reached = NavStates
    /\ pc[r] = "gate" => loc[r].scraped
    /\ loc[r].navErr # "none" =>
         /\ pc[r] \in {"pageclose", "next"}
         /\ ~loc[r].scraped
         /\ ~loc[r].announced
         /\ loc[r].attempts = <<>>
         /\ loc[r].reads = 0
         /\ loc[r].writes = 0
         /\ pc[r] = "next" =>
              /\ <<i[r], "scrape">> \in failedAt[r]
              /\ ENABLED NextAddress(r)

\* C21's case: the scrape of the first address failed, and the run has
\* taken the second address through the six states to its schedule.
C21_Witness ==
  \E r \in Runs :
    /\ i[r] = 2
    /\ <<1, "scrape">> \in failedAt[r]
    /\ pc[r] = "pageclose"
    /\ loc[r].reached = NavStates
    /\ loc[r].navResult # <<>>
    /\ loc[r].navErr = "none"

\* C22 as stated: a scrape that fails after PageLoaded and before
\* FrameLocated has scanned the frames for one with inputs, and fails with
\* the frame-not-found error of the scan.
C22_Claim ==
  \A r \in Runs :
    pc[r] = "pageclose" /\ loc[r].navErr # "none"
      /\ loc[r].reached = <<"PageLoaded">>
      => loc[r].scanned /\ loc[r].navErr = "FrameNotFound"

\* C25: ensureFormOpen goes through its candidates one after the other and
\* no error comes out of it: while it is at work no error is set, it ends
\* with the candidate that opened the form or after the last one, and then
\* the address is typed; no scrape fails between FrameLocated and
\* FormOpened.
C25_FormOpenBestEffort ==
  \A r \in Runs :
    /\ pc[r] = "open" =>
         /\ loc[r].navErr = "none"
         /\ ~loc[r].opened
         /\ loc[r].tried < NumCandidates
    /\ Len(loc[r].reached) >= 3 =>
         /\ loc[r].tried \in 1..NumCandidates
         /\ ~loc[r].opened => loc[r].tried = NumCandidates
    /\ Len(loc[r].reached) < 3 /\ pc[r] # "open" => loc[r].tried = 0
    /\ loc[r].navErr # "none" => Len(loc[r].reached) # 2

\* C25's case: no candidate opened the form, all of them were tried, and
\* the address is being typed.
C25_Witness ==
  \E r \in Runs :
    /\ pc[r] = "select"
    /\ loc[r].tried = NumCandidates
    /\ ~loc[r].opened
    /\ loc[r].reached = SubSeq(NavStates, 1, 4)

\* The steps of scrapeNextCollections between newPage and page.close().
PageSteps ==
  {"agent", "goto", "shot", "frame", "content", "scan", "open", "type",
   "select", "pick", "results", "diag", "extract", "pageclose"}

\* The pages a run has open for the address it is scraping.
PagesInUse(r) == IF pc[r] \in PageSteps THEN 1 ELSE 0

\* C28 as stated: a run never has two pages open, it has none open when it
\* is not scraping an address, and a run that launched the browser has
\* settled only with the browser closed.
C28_Original ==
  \A r \in Runs :
    /\ pages[r] = PagesInUse(r)
    /\ pc[r] = "settled" /\ outcome[r] \notin {"ConfigError", "LaunchError"}
         => browser[r] = "closed"

=============================================================================
